---- MODULE Spec2Model ----
(***************************************************************************)
(* Customer index and customer resolution of the Telegram payment and      *)
(* order bots (bot.py, payment-bot/app.py, order_bot.py,                   *)
(* order_bot_backup.py, order-bot/orderapp.py, improved_order_bot.py).     *)
(*                                                                         *)
(* A Python str is modelled as a sequence of one-character strings, so     *)
(* that strip(), lower(), `in`, re.match and difflib act on characters.    *)
(* The alphabet holds letters, the space, parentheses, digits and ':'.     *)
(* A dict is a sequence of <<key, value>> pairs in insertion order, as     *)
(* Python dicts iterate.                                                   *)
(***************************************************************************)
EXTENDS Integers, Sequences, FiniteSets, TLC

\* ---------------------------------------------------------------- bounds
\* longest customer list the model loads or grows to
MaxCustomers == 2
\* most rows the ledger holds before message handling stops
MaxLedger == 1
MaxNow == 606
MaxElapsed == 11
MaxCacheSize == 2
MaxDigits == 4

\* ------------------------------------------------------------ Python str
\* Python None; no str of the model has a multi-character element
NONE == <<"None">>

\* the exception path of an external call (OpenAI, Sheets, Secret Manager)
ERROR == <<"Exception">>

\* str.isspace for one character
IsSpace(c) == c = " "

\* str.lower for one character
LowerChar(c) ==
  CASE c = "A" -> "a"
    [] c = "B" -> "b"
    [] c = "E" -> "e"
    [] c = "G" -> "g"
    [] c = "K" -> "k"
    [] c = "L" -> "l"
    [] c = "N" -> "n"
    [] OTHER -> c

\* str.lower
Lower(s) == [i \in DOMAIN s |-> LowerChar(s[i])]

RECURSIVE LStrip(_)
\* str.lstrip
LStrip(s) == IF s # <<>> /\ IsSpace(Head(s)) THEN LStrip(Tail(s)) ELSE s

RECURSIVE RStrip(_)
\* str.rstrip
RStrip(s) ==
  IF s # <<>> /\ IsSpace(s[Len(s)]) THEN RStrip(SubSeq(s, 1, Len(s) - 1)) ELSE s

\* str.strip
Strip(s) == RStrip(LStrip(s))

\* Python `needle in hay` for two str
Contains(hay, needle) ==
  \E i \in 0..(Len(hay) - Len(needle)) : SubSeq(hay, i + 1, i + Len(needle)) = needle

\* str.startswith
StartsWith(s, p) == Len(s) >= Len(p) /\ SubSeq(s, 1, Len(p)) = p

\* Python `x in lst` for a list
InList(lst, x) == \E i \in DOMAIN lst : lst[i] = x

\* list.remove(x): drops the first occurrence (x is present at every call site)
ListRemove(lst, x) ==
  LET i == CHOOSE j \in DOMAIN lst : lst[j] = x /\ \A k \in 1..(j - 1) : lst[k] # x
  IN SubSeq(lst, 1, i - 1) \o SubSeq(lst, i + 1, Len(lst))

\* ------------------------------------------------------------ Python dict
\* `k in d`
DictHas(d, k) == \E i \in DOMAIN d : d[i][1] = k

\* d[k] for a key that is present, d.get(k) otherwise (None)
DictGet(d, k) ==
  IF DictHas(d, k) THEN d[CHOOSE i \in DOMAIN d : d[i][1] = k][2] ELSE NONE

\* d[k] = v: an existing key keeps its position, a new key goes last
DictSet(d, k, v) ==
  IF DictHas(d, k)
    THEN [i \in DOMAIN d |-> IF d[i][1] = k THEN <<k, v>> ELSE d[i]]
    ELSE Append(d, <<k, v>>)

\* del d[k] for a key that is present
DictDel(d, k) == SelectSeq(d, LAMBDA e : e[1] # k)

\* d.keys() and d.values() as sets
DictKeys(d) == {d[i][1] : i \in DOMAIN d}
DictValues(d) == {d[i][2] : i \in DOMAIN d}

\* --------------------------------------------------- re.match(r'\((.*?)\)\s*(.*)')
\* position of the first ')' of s, 0 when there is none
FirstClose(s) ==
  IF \E j \in DOMAIN s : s[j] = ")"
    THEN CHOOSE j \in DOMAIN s : s[j] = ")" /\ \A k \in 1..(j - 1) : s[k] # ")"
    ELSE 0

\* does r'\((.*?)\)\s*(.*)' match at the start of s
CodeMatches(s) == s # <<>> /\ s[1] = "(" /\ FirstClose(s) > 0

\* match.group(2): what follows the first ')' and the whitespace after it
CodeGroup2(s) == LStrip(SubSeq(s, FirstClose(s) + 1, Len(s)))

\* ---------------------------------------------------------------- difflib
\* code point of a character of the alphabet (str comparison, heapq.nlargest)
Ord(c) ==
  CASE c = " " -> 32 [] c = "(" -> 40 [] c = ")" -> 41
    [] c = "0" -> 48 [] c = "1" -> 49 [] c = "2" -> 50 [] c = "3" -> 51
    [] c = "5" -> 53 [] c = ":" -> 58
    [] c = "A" -> 65 [] c = "B" -> 66 [] c = "N" -> 78
    [] c = "a" -> 97 [] c = "b" -> 98 [] c = "c" -> 99 [] c = "e" -> 101
    [] c = "n" -> 110 [] c = "w" -> 119 [] c = "x" -> 120 [] c = "z" -> 122
    [] OTHER -> 0

RECURSIVE StrLess(_, _)
\* Python s < t for two str
StrLess(s, t) ==
  IF t = <<>> THEN FALSE
  ELSE IF s = <<>> THEN TRUE
  ELSE IF Ord(Head(s)) # Ord(Head(t)) THEN Ord(Head(s)) < Ord(Head(t))
  ELSE StrLess(Tail(s), Tail(t))

\* is a[i..i+k-1] = b[j..j+k-1] a common block
IsBlock(a, b, i, j, k) ==
  /\ i + k - 1 <= Len(a)
  /\ j + k - 1 <= Len(b)
  /\ SubSeq(a, i, i + k - 1) = SubSeq(b, j, j + k - 1)

\* SequenceMatcher.find_longest_match without junk: <<i, j, k>>, the longest
\* common block, the earliest in a, then the earliest in b; k = 0 when none
LongestMatch(a, b) ==
  LET Blocks(k) == {p \in (1..Len(a)) \X (1..Len(b)) : IsBlock(a, b, p[1], p[2], k)}
      First(bl) == CHOOSE p \in bl : \A q \in bl : p[1] < q[1] \/ (p[1] = q[1] /\ p[2] <= q[2])
      At(p, k) == <<p[1], p[2], k>>
      Longest(sizes) ==
        IF sizes = {} THEN <<1, 1, 0>>
        ELSE LET k == CHOOSE m \in sizes : \A n \in sizes : n <= m
             IN At(First(Blocks(k)), k)
  IN Longest({k \in 1..Len(a) : Blocks(k) # {}})

RECURSIVE MatchCount(_, _)
\* sum of the sizes of SequenceMatcher.get_matching_blocks
MatchCount(a, b) ==
  LET Around(m) ==
        IF m[3] = 0 THEN 0
        ELSE m[3]
             + MatchCount(SubSeq(a, 1, m[1] - 1), SubSeq(b, 1, m[2] - 1))
             + MatchCount(SubSeq(a, m[1] + m[3], Len(a)), SubSeq(b, m[2] + m[3], Len(b)))
  IN Around(LongestMatch(a, b))

\* SequenceMatcher(None, a, b).ratio() as the fraction <<numerator, denominator>>
Ratio(a, b) ==
  IF Len(a) + Len(b) = 0 THEN <<1, 1>> ELSE <<2 * MatchCount(a, b), Len(a) + Len(b)>>

\* p >= q and p > q for two fractions with positive denominators
FracGeq(p, q) == p[1] * q[2] >= q[1] * p[2]
FracGt(p, q) == p[1] * q[2] > q[1] * p[2]

\* difflib.get_close_matches(word, possibilities, n=1, cutoff): the best
\* (ratio, x) pair, x compared as str on equal ratios; <<>> when none reaches
\* the cutoff
CloseMatch1(word, possibilities, cutoff) ==
  LET Better(p, q) == \/ FracGt(p[1], q[1])
                      \/ /\ p[1][1] * q[1][2] = q[1][1] * p[1][2]
                         /\ StrLess(q[2], p[2])
      Best(ok) == IF ok = {} THEN <<>>
                  ELSE <<(CHOOSE p \in ok : \A q \in ok \ {p} : Better(p, q))[2]>>
      Scored(result) == {p \in result : FracGeq(p[1], cutoff)}
  IN Best(Scored({<<Ratio(x, word), x>> : x \in possibilities}))

\* ------------------------------------------------------- the customer index
\* the key of a stripped record: the name after "(code)", else the record
NameKey(c) == IF CodeMatches(c) THEN Strip(CodeGroup2(c)) ELSE c

RECURSIVE BuildFrom(_, _)
\* the loop of an index build over the customer list: a stripped, non-empty
\* record with a non-empty key is stored under that key
BuildFrom(cust, d) ==
  IF cust = <<>> THEN d
  ELSE LET c == Strip(Head(cust))
       IN BuildFrom(Tail(cust),
                    IF c # <<>> /\ NameKey(c) # <<>> THEN DictSet(d, NameKey(c), c) ELSE d)

\* PaymentBot._build_name_mapping (bot.py): a "(code)" record with an empty
\* name gets no key
_build_name_mapping(cust) == BuildFrom(cust, <<>>)

\* OrderBot._build_customer_mapping (order_bot.py, order-bot/orderapp.py) and
\* the loop of OrderBot._load_customers (order_bot_backup.py)
_build_customer_mapping(cust) == BuildFrom(cust, <<>>)

RECURSIVE LoadAppFrom(_, _)
\* the loop of PaymentBot._load_customers (payment-bot/app.py): the name of a
\* "(code)" record becomes a key even when it is empty
LoadAppFrom(cust, d) ==
  IF cust = <<>> THEN d
  ELSE LET c == Strip(Head(cust))
       IN LoadAppFrom(Tail(cust), IF c # <<>> THEN DictSet(d, NameKey(c), c) ELSE d)

RECURSIVE ImprovedBuildFrom(_, _)
\* ImprovedOrderBot._build_customer_mapping: two lowercased keys per record,
\* its name and the record itself
ImprovedBuildFrom(cust, d) ==
  IF cust = <<>> THEN d
  ELSE LET c == Strip(Head(cust))
       IN ImprovedBuildFrom(Tail(cust),
            IF c # <<>> /\ NameKey(c) # <<>>
              THEN DictSet(DictSet(d, Lower(NameKey(c)), c), Lower(c), c)
              ELSE d)

\* the index a bot variant builds from its customer list at start-up
BuildIndex(b, cust) ==
  CASE b = "bot" -> _build_name_mapping(cust)
    [] b = "payment_app" -> LoadAppFrom(cust, <<>>)
    [] b = "improved_order_bot" -> ImprovedBuildFrom(cust, <<>>)
    [] OTHER -> _build_customer_mapping(cust)

\* ----------------------------------------------------- customer resolution
\* the literal "null" an LLM answers for no match
NULL == <<"n", "u", "l", "l">>

\* PaymentBot.map_customer_with_gpt (bot.py, payment-bot/app.py): resp is the
\* content of the completion, or ERROR when the call raises. The candidate
\* subset sent in the prompt does not constrain what the service answers.
\* The body catches every exception, so the tenacity wrapper never retries.
map_customer_with_gpt(cust, resp) ==
  IF cust = <<>> THEN NONE
  ELSE IF resp = ERROR THEN NONE
  ELSE LET result == Strip(resp)
       IN IF result # NULL /\ InList(cust, result) THEN result ELSE NONE

\* the entries of the index whose key equals name when both are lowercased
CaseInsensitiveHits(idx, name) ==
  SelectSeq(idx, LAMBDA e : Lower(e[1]) = Lower(name))

\* step 4 of find_customer (bot.py): the entries whose lowercased key contains
\* the lowercased name or is contained in it
partial_matches(idx, name) ==
  SelectSeq(idx, LAMBDA e : \/ Contains(Lower(e[1]), Lower(name))
                            \/ Contains(Lower(name), Lower(e[1])))

\* find_customer with the LLM asked before the index is consulted
find_customer_llm_first(cust, idx, name, resp) ==
  [result |-> IF map_customer_with_gpt(cust, resp) # NONE
                THEN map_customer_with_gpt(cust, resp)
                ELSE DictGet(idx, name),
   ran |-> <<"llm", "key">>]

\* find_customer with the case-insensitive step before the exact-record step
find_customer_swapped(cust, idx, name, resp) ==
  IF Len(cust) = 0 THEN [result |-> NONE, ran |-> <<>>]
  ELSE IF DictHas(idx, name)
    THEN [result |-> DictGet(idx, name), ran |-> <<"key">>]
  ELSE IF CaseInsensitiveHits(idx, name) # <<>>
    THEN [result |-> CaseInsensitiveHits(idx, name)[1][2], ran |-> <<"key", "lower">>]
  ELSE IF InList(cust, name)
    THEN [result |-> name, ran |-> <<"key", "lower", "record">>]
  ELSE IF Len(partial_matches(idx, name)) = 1
    THEN [result |-> partial_matches(idx, name)[1][2],
          ran |-> <<"key", "lower", "record", "substring">>]
  ELSE [result |-> map_customer_with_gpt(cust, resp),
        ran |-> <<"key", "lower", "record", "substring", "llm">>]

\* find_customer taking the first of several partial matches
find_customer_first_partial(cust, idx, name, resp) ==
  IF Len(cust) = 0 THEN [result |-> NONE, ran |-> <<>>]
  ELSE IF DictHas(idx, name)
    THEN [result |-> DictGet(idx, name), ran |-> <<"key">>]
  ELSE IF InList(cust, name)
    THEN [result |-> name, ran |-> <<"key", "record">>]
  ELSE IF CaseInsensitiveHits(idx, name) # <<>>
    THEN [result |-> CaseInsensitiveHits(idx, name)[1][2],
          ran |-> <<"key", "record", "lower">>]
  ELSE IF Len(partial_matches(idx, name)) >= 1
    THEN [result |-> partial_matches(idx, name)[1][2],
          ran |-> <<"key", "record", "lower", "substring">>]
  ELSE [result |-> map_customer_with_gpt(cust, resp),
        ran |-> <<"key", "record", "lower", "substring", "llm">>]

\* find_customer without the exact-record step
find_customer_no_record(cust, idx, name, resp) ==
  IF Len(cust) = 0 THEN [result |-> NONE, ran |-> <<>>]
  ELSE IF DictHas(idx, name)
    THEN [result |-> DictGet(idx, name), ran |-> <<"key">>]
  ELSE IF CaseInsensitiveHits(idx, name) # <<>>
    THEN [result |-> CaseInsensitiveHits(idx, name)[1][2], ran |-> <<"key", "lower">>]
  ELSE IF Len(partial_matches(idx, name)) = 1
    THEN [result |-> partial_matches(idx, name)[1][2],
          ran |-> <<"key", "lower", "substring">>]
  ELSE [result |-> map_customer_with_gpt(cust, resp),
        ran |-> <<"key", "lower", "substring", "llm">>]

\* PaymentBot.find_customer (bot.py): the result and the strategies run, in
\* the order run; an LLM call is the strategy "llm"
find_customer(cust, idx, name, resp) ==
  IF Len(cust) = 0 THEN [result |-> NONE, ran |-> <<>>]
  ELSE IF DictHas(idx, name)
    THEN [result |-> DictGet(idx, name), ran |-> <<"key">>]
  ELSE IF InList(cust, name)
    THEN [result |-> name, ran |-> <<"key", "record">>]
  ELSE IF CaseInsensitiveHits(idx, name) # <<>>
    THEN [result |-> CaseInsensitiveHits(idx, name)[1][2],
          ran |-> <<"key", "record", "lower">>]
  ELSE IF Len(partial_matches(idx, name)) = 1
    THEN [result |-> partial_matches(idx, name)[1][2],
          ran |-> <<"key", "record", "lower", "substring">>]
  ELSE [result |-> map_customer_with_gpt(cust, resp),
        ran |-> <<"key", "record", "lower", "substring", "llm">>]

RECURSIVE Words(_)
\* str.split(): the maximal runs of non-space characters
Words(s) ==
  LET t == LStrip(s)
  IN IF t = <<>> THEN <<>>
     ELSE LET ends == {i \in 1..Len(t) : i = Len(t) \/ IsSpace(t[i + 1])}
              e == CHOOSE i \in ends : \A j \in ends : i <= j
          IN <<SubSeq(t, 1, e)>> \o Words(SubSeq(t, e + 1, Len(t)))

RECURSIVE JoinWords(_)
\* ' '.join(words)
JoinWords(ws) ==
  IF ws = <<>> THEN <<>>
  ELSE IF Len(ws) = 1 THEN ws[1]
  ELSE ws[1] \o <<" ">> \o JoinWords(Tail(ws))

\* re.sub(r'\s+', ' ', s.strip()): every run of spaces becomes one space
CollapseSpaces(s) == JoinWords(Words(s))

\* the score flexible_match gives an index key, as a fraction: the ratio plus
\* 0.2 times the share of input words that are words of the key
FlexScore(cleaned, key) ==
  LET Score(r, words, short_words) ==
        LET word_matches == Cardinality({i \in DOMAIN words : InList(short_words, words[i])})
            nw == IF Len(words) > 1 THEN Len(words) ELSE 1
        IN <<r[1] * 5 * nw + word_matches * r[2], r[2] * 5 * nw>>
  IN Score(Ratio(cleaned, Lower(key)), Words(cleaned), Words(Lower(key)))

RECURSIVE FlexBest(_, _, _, _)
\* the loop of flexible_match: <<best_score, best_match>> after the entries
\* of idx, a later entry winning only on a strictly greater score
FlexBest(idx, cleaned, best_score, best_match) ==
  LET Step(score) ==
        IF FracGt(score, best_score)
          THEN FlexBest(Tail(idx), cleaned, score, Head(idx)[2])
          ELSE FlexBest(Tail(idx), cleaned, best_score, best_match)
  IN IF idx = <<>> THEN <<best_score, best_match>>
     ELSE Step(FlexScore(cleaned, Head(idx)[1]))

\* PaymentBot.flexible_match (payment-bot/app.py): the best-scoring record when
\* its score exceeds 0.75
flexible_match(idx, input_name) ==
  LET Over(best) == IF FracGt(best[1], <<3, 4>>) THEN best[2] ELSE NONE
  IN IF idx = <<>> THEN NONE
     ELSE Over(FlexBest(idx, Lower(CollapseSpaces(input_name)), <<0, 1>>, NONE))

\* PaymentBot.find_customer (payment-bot/app.py)
find_customer_app(cust, idx, name, resp) ==
  LET Flexible(flexible) ==
        IF flexible # NONE
          THEN [result |-> flexible, ran |-> <<"key", "record", "lower", "flexible">>]
          ELSE [result |-> map_customer_with_gpt(cust, resp),
                ran |-> <<"key", "record", "lower", "flexible", "llm">>]
  IN IF DictHas(idx, name)
       THEN [result |-> DictGet(idx, name), ran |-> <<"key">>]
     ELSE IF InList(cust, name)
       THEN [result |-> name, ran |-> <<"key", "record">>]
     ELSE IF CaseInsensitiveHits(idx, name) # <<>>
       THEN [result |-> CaseInsensitiveHits(idx, name)[1][2],
             ran |-> <<"key", "record", "lower">>]
     ELSE Flexible(flexible_match(idx, name))

\* ------------------------------------------------------- payment parsing
\* \d
IsDigit(c) == c \in {"0", "1", "2", "3", "4", "5", "6", "7", "8", "9"}

\* the currency alternatives of the pattern of parse_payment (bot.py); the
\* Georgian word for lari is written "lari" and the lari sign "L"
Currencies ==
  { <<"G", "E", "L">>, <<"U", "S", "D">>, <<"E", "U", "R">>,
    <<"l", "a", "r", "i">>, <<"L">> }

\* length of the longest prefix of s that \s* (kind "space") or \d* (kind
\* "digit") matches
RunLen(kind, s) ==
  LET P(c) == IF kind = "space" THEN IsSpace(c) ELSE IsDigit(c)
      stops == {i \in 0..Len(s) : i = Len(s) \/ ~P(s[i + 1])}
  IN CHOOSE i \in stops : \A j \in stops : i <= j

\* the number r'\s+(\d+(?:\.\d+)?)\s*(?:GEL|...)?$' captures when it matches
\* the whole of r, NONE when it does not match
AmountTail(r) ==
  LET ws == RunLen("space", r)
      r1 == SubSeq(r, ws + 1, Len(r))
      d1 == RunLen("digit", r1)
      r2 == SubSeq(r1, d1 + 1, Len(r1))
      d2 == IF r2 # <<>> /\ r2[1] = "." THEN RunLen("digit", Tail(r2)) ELSE 0
      numlen == IF d2 > 0 THEN d1 + 1 + d2 ELSE d1
      r3 == SubSeq(r1, numlen + 1, Len(r1))
      r4 == SubSeq(r3, RunLen("space", r3) + 1, Len(r3))
  IN IF ws >= 1 /\ d1 >= 1 /\ (r4 = <<>> \/ r4 \in Currencies)
       THEN SubSeq(r1, 1, numlen)
       ELSE NONE

\* value of one digit
DigitVal(c) == CHOOSE v \in 0..9 : <<"0", "1", "2", "3", "4", "5", "6", "7", "8", "9">>[v + 1] = c

RECURSIVE IntVal(_)
\* int() of a string of digits
IntVal(ds) == IF ds = <<>> THEN 0 ELSE IntVal(SubSeq(ds, 1, Len(ds) - 1)) * 10 + DigitVal(ds[Len(ds)])

\* float() of a matched number, in hundredths (exact for the amounts of the
\* model, which carry at most two fraction digits)
Hundredths(num) ==
  LET d1 == RunLen("digit", num)
      frac == SubSeq(num, d1 + 2, Len(num))
      f2 == SubSeq(frac \o <<"0", "0">>, 1, 2)
  IN IntVal(SubSeq(num, 1, d1)) * 100 + IntVal(f2)

\* the None of a parser, as a record so that it compares with a parsed result
NoParse == [ok |-> FALSE, name |-> <<>>, amount |-> 0]

\* PaymentBot.parse_payment (bot.py): the name and the amount in hundredths,
\* or NoParse; the greedy (.*) takes the longest prefix after which the rest
\* of the pattern matches
parse_payment(text) ==
  LET t == Strip(text)
      cuts == {i \in 0..Len(t) : AmountTail(SubSeq(t, i + 1, Len(t))) # NONE}
  IN IF cuts = {} THEN NoParse
     ELSE LET i == CHOOSE m \in cuts : \A n \in cuts : n <= m
              amount == Hundredths(AmountTail(SubSeq(t, i + 1, Len(t))))
          IN IF amount > 0
               THEN [ok |-> TRUE, name |-> Strip(SubSeq(t, 1, i)), amount |-> amount]
               ELSE NoParse

\* \w for the characters of the model: a letter, a digit or the underscore
IsWordChar(c) ==
  \/ IsDigit(c)
  \/ c = "_"
  \/ c \in {"a", "b", "c", "d", "e", "f", "g", "h", "i", "j", "k", "l", "m", "n", "o", "p", "q",
            "r", "s", "t", "u", "v", "w", "x", "y", "z", "A", "B", "C", "D", "E", "F", "G", "H",
            "I", "J", "K", "L", "M", "N", "O", "P", "Q", "R", "S", "T", "U", "V", "W", "X", "Y", "Z"}

\* does r'\b\d{4}\b' match s at position i
YearAt(s, i) ==
  /\ i + 3 <= Len(s)
  /\ \A k \in i .. i + 3 : IsDigit(s[k])
  /\ i = 1 \/ ~IsWordChar(s[i - 1])
  /\ i + 3 = Len(s) \/ ~IsWordChar(s[i + 4])

RECURSIVE RemoveYearsFrom(_, _)
\* re.sub(r'\b\d{4}\b', '', s) from position i on: the matches are taken
\* from left to right
RemoveYearsFrom(s, i) ==
  IF i > Len(s) THEN <<>>
  ELSE IF YearAt(s, i) THEN RemoveYearsFrom(s, i + 4)
  ELSE <<s[i]>> \o RemoveYearsFrom(s, i + 1)

\* the currency alternatives of the pattern of parse_payment (app.py)
AppCurrencies == { <<"G", "E", "L">>, <<"U", "S", "D">>, <<"E", "U", "R">> }

\* the number r'\s+(\d+(?:\.\d+)?)\s*(?:GEL|USD|EUR)?$' captures when it
\* matches the whole of r, NONE when it does not match
AppAmountTail(r) ==
  LET ws == RunLen("space", r)
      r1 == SubSeq(r, ws + 1, Len(r))
      d1 == RunLen("digit", r1)
      r2 == SubSeq(r1, d1 + 1, Len(r1))
      d2 == IF r2 # <<>> /\ r2[1] = "." THEN RunLen("digit", Tail(r2)) ELSE 0
      numlen == IF d2 > 0 THEN d1 + 1 + d2 ELSE d1
      r3 == SubSeq(r1, numlen + 1, Len(r1))
      r4 == SubSeq(r3, RunLen("space", r3) + 1, Len(r3))
  IN IF ws >= 1 /\ d1 >= 1 /\ (r4 = <<>> \/ r4 \in AppCurrencies)
       THEN SubSeq(r1, 1, numlen)
       ELSE NONE

\* PaymentBot.parse_payment (payment-bot/app.py): every number of exactly
\* four digits is removed from the text first; then as in bot.py, the name
\* and the amount in hundredths, or NoParse
parse_payment_app(text) ==
  LET t == Strip(RemoveYearsFrom(text, 1))
      cuts == {i \in 0..Len(t) : AppAmountTail(SubSeq(t, i + 1, Len(t))) # NONE}
  IN IF cuts = {} THEN NoParse
     ELSE LET i == CHOOSE m \in cuts : \A n \in cuts : n <= m
              amount == Hundredths(AppAmountTail(SubSeq(t, i + 1, Len(t))))
          IN IF amount > 0
               THEN [ok |-> TRUE, name |-> Strip(SubSeq(t, 1, i)), amount |-> amount]
               ELSE NoParse

\* PaymentBot.extract_payment_with_ai (bot.py): ai is what the completion
\* holds once read: kind "error" (the call raises), "null", "garbage" (not a
\* JSON object with a number) or "json" with the fields name and amount
extract_payment_with_ai(ai) ==
  IF ai.kind = "json" /\ Strip(ai.name) # <<>> /\ ai.amount > 0
    THEN [ok |-> TRUE, name |-> Strip(ai.name), amount |-> ai.amount]
    ELSE NoParse

\* ---------------------------------------------------------- add a customer
\* the prefix of the add command of bot.py and improved_order_bot.py
NewPrefix == <<"n", "e", "w", ":">>

\* handle_new_customer_command without the check for an existing record
handle_new_customer_command_no_check(cust, idx, text, success) ==
  LET customer_name == Strip(SubSeq(text, 5, Len(text)))
  IN IF customer_name = <<>>
       THEN [customers |-> cust, name_to_full |-> idx, reply |-> "no_name"]
     ELSE IF success
       THEN [customers |-> Append(cust, customer_name),
             name_to_full |-> DictSet(idx, NameKey(customer_name), customer_name),
             reply |-> "added"]
     ELSE [customers |-> cust, name_to_full |-> idx, reply |-> "add_failed"]

\* PaymentBot.handle_new_customer_command (bot.py): the list, the index and
\* the reply after the command; success is what update_gcp_secret returns
handle_new_customer_command(cust, idx, text, success) ==
  LET customer_name == Strip(SubSeq(text, 5, Len(text)))
      match == CodeMatches(customer_name)
      short_name == Strip(CodeGroup2(customer_name))
      cust1 == Append(cust, customer_name)
      idx1 == IF match
                THEN IF short_name # <<>> THEN DictSet(idx, short_name, customer_name) ELSE idx
                ELSE DictSet(idx, customer_name, customer_name)
      idx2 == IF DictHas(idx1, customer_name) THEN DictDel(idx1, customer_name) ELSE idx1
      idx3 == IF match /\ DictHas(idx2, short_name) THEN DictDel(idx2, short_name) ELSE idx2
  IN IF customer_name = <<>>
       THEN [customers |-> cust, name_to_full |-> idx, reply |-> "no_name"]
     ELSE IF InList(cust, customer_name)
       THEN [customers |-> cust, name_to_full |-> idx, reply |-> "exists"]
     ELSE IF success
       THEN [customers |-> cust1, name_to_full |-> idx1, reply |-> "added"]
     ELSE [customers |-> ListRemove(cust1, customer_name), name_to_full |-> idx3,
           reply |-> "add_failed"]

\* ImprovedOrderBot.handle_new_customer_command: the index is rebuilt from the
\* list after the append and again after the removal
handle_new_customer_command_improved(cust, idx, text, success) ==
  LET customer_name == Strip(SubSeq(text, 5, Len(text)))
      cust1 == Append(cust, customer_name)
      cust2 == ListRemove(cust1, customer_name)
  IN IF customer_name = <<>>
       THEN [customers |-> cust, name_to_full |-> idx, reply |-> "no_name"]
     ELSE IF InList(cust, customer_name)
       THEN [customers |-> cust, name_to_full |-> idx, reply |-> "exists"]
     ELSE IF success
       THEN [customers |-> cust1, name_to_full |-> ImprovedBuildFrom(cust1, <<>>),
             reply |-> "added"]
     ELSE [customers |-> cust2, name_to_full |-> ImprovedBuildFrom(cust2, <<>>),
           reply |-> "add_failed"]

\* OrderBot.add_customer (order-bot/orderapp.py) and PaymentBot.add_customer
\* (payment-bot/app.py): the list and the index after the call; a failure to
\* write customers.json is logged and changes nothing. The name of a "(code)"
\* record becomes a key even when it is empty.
add_customer(cust, idx, new_customer) ==
  LET Added(c) ==
        IF c # <<>> /\ ~InList(cust, c)
          THEN [customers |-> Append(cust, c),
                name_to_full |-> DictSet(idx, IF CodeMatches(c) THEN Strip(CodeGroup2(c)) ELSE c, c)]
          ELSE [customers |-> cust, name_to_full |-> idx]
  IN Added(Strip(new_customer))

\* -------------------------------------------------------------- order bots
\* Config.MAX_RETRIES (order_bot.py, order_bot_backup.py), the attempts of the
\* retry wrappers
MAX_RETRIES == 3

RECURSIVE FirstFuzzy(_, _)
\* the fuzzy loop of _find_customer_in_text over the words given: the record
\* of the closest key (cutoff 0.8) of the first word that has one
FirstFuzzy(idx, words) ==
  LET Matched(matches) ==
        IF matches # <<>> THEN DictGet(idx, matches[1]) ELSE FirstFuzzy(idx, Tail(words))
  IN IF words = <<>> THEN NONE
     ELSE Matched(CloseMatch1(Head(words), DictKeys(idx), <<4, 5>>))

\* the index entries whose lowercased key occurs in the lowercased text
KeysInText(idx, text) == SelectSeq(idx, LAMBDA e : Contains(Lower(text), Lower(e[1])))

\* OrderBot._find_customer_in_text (order_bot.py, order-bot/orderapp.py): the
\* record of the first key, in index order, that occurs in the text; failing
\* that a fuzzy match of one of the first three words
_find_customer_in_text(idx, text) ==
  LET First3(words) == SubSeq(words, 1, IF Len(words) < 3 THEN Len(words) ELSE 3)
      Found(hits) ==
        IF hits # <<>>
          THEN [result |-> hits[1][2], ran |-> <<"substring">>]
          ELSE [result |-> FirstFuzzy(idx, First3(Words(text))),
                ran |-> <<"substring", "fuzzy">>]
  IN Found(KeysInText(idx, text))

\* the customer try_record resolves a name to: the name itself when it is a
\* value of the index, else the value under the key `name` (order_bot.py)
ResolveOrderBot(idx, name) ==
  IF name \in DictValues(idx) THEN name ELSE DictGet(idx, name)

\* the customer try_record of order_bot_backup.py resolves a name to
ResolveBackup(idx, name) == DictGet(idx, name)

\* all sequences over S of length at most n
SeqsUpTo(S, n) == UNION {[1..k -> S] : k \in 0..n}

\* OrderBot._sanitize_sheet_data, for one cell: line breaks become spaces
_sanitize_sheet_data(item) ==
  [i \in DOMAIN item |-> IF item[i] \in {"\n", "\r"} THEN " " ELSE item[i]]

\* the runs of one call of try_record under its retry wrapper, one entry per
\* attempt: "net" (the reply raises NetworkError, the call is retried),
\* "sheets" (record_to_sheets raises, which is not retried) or "ok"
AttemptSeqs ==
  {att \in SeqsUpTo({"net", "sheets", "ok"}, MAX_RETRIES) :
     /\ att # <<>>
     /\ \A i \in 1..(Len(att) - 1) : att[i] = "net"
     /\ att[Len(att)] = "net" => Len(att) = MAX_RETRIES}

\* the rows the attempts of a resolved try_record append: one per attempt
\* whose record_to_sheets succeeds
RowsOf(att, row) ==
  [i \in 1..Cardinality({j \in DOMAIN att : att[j] # "sheets"}) |-> row]

\* OrderBot.try_record (order_bot.py, order_bot_backup.py) of bot b at time
\* t, for the message message_id of user u: what it leaves of the ledger, of
\* pending_messages and of user_data, the record it resolved the name to
\* (result), the reply ("recorded", "prompt", or "exception" when the last
\* attempt raised) and the record of the rows it appended (row)
try_record(b, idx, led, pend, ud, t, u, message_id, name, amount, product, att) ==
  LET Resolved(customer_full, rows) ==
        IF customer_full # NONE
          THEN [ledger |-> led \o rows, pending_messages |-> pend, user_data |-> ud,
                result |-> customer_full,
                reply |-> IF att[Len(att)] = "ok" THEN "recorded" ELSE "exception",
                row |-> IF rows # <<>> THEN customer_full ELSE NONE]
          ELSE [ledger |-> led, pending_messages |-> pend \cup {message_id},
                user_data |-> IF att[Len(att)] = "ok"
                                THEN [ud EXCEPT ![u].pending_order =
                                        [name |-> name, amount |-> amount, product |-> product,
                                         message_id |-> message_id, timestamp |-> t]]
                                ELSE ud,
                result |-> NONE,
                reply |-> IF att[Len(att)] = "ok" THEN "prompt" ELSE "exception",
                row |-> NONE]
      Rows(customer_full) ==
        Resolved(customer_full,
                 IF customer_full = NONE THEN <<>>
                 ELSE RowsOf(att, [customer |-> _sanitize_sheet_data(customer_full),
                                   amount |-> amount,
                                   product |-> _sanitize_sheet_data(product)]))
  IN Rows(IF b = "order_bot" THEN ResolveOrderBot(idx, name) ELSE ResolveBackup(idx, name))

\* ------------------------------------------------ order parsing by rules
\* what one chat completion call of parse_order_with_gpt ends in: kind is
\* "rate_limit" (openai.RateLimitError), "auth" (openai.AuthenticationError),
\* "error" (any other exception, or content that is no JSON), "null" or
\* "json" (an object with the three fields)
GptOut(kind, customer, amount, product) ==
  [kind |-> kind, customer |-> customer, amount |-> amount, product |-> product]

\* no parsed order (None)
NoOrder == GptOut("none", <<>>, 0, <<>>)

\* the units (GEL|kg) of the pattern of _is_potential_order
OrderUnits == { <<"G", "E", "L">>, <<"k", "g">> }

\* the units of the pattern of _parse_order_simple, lowercased (the pattern
\* ignores case), in the order of its alternatives; the Georgian words for
\* lari and kg are written "lari" and "qg"
SimpleUnits == << <<"g", "e", "l">>, <<"k", "g">>, <<"l", "a", "r", "i">>, <<"q", "g">> >>

\* does r match \s*(GEL|kg)?\s+(.+)$
OrderTail(r) ==
  \/ Len(r) >= 2 /\ IsSpace(r[1])
  \/ \E unit \in OrderUnits :
       /\ StartsWith(r, unit)
       /\ Len(r) >= Len(unit) + 2
       /\ IsSpace(r[Len(unit) + 1])

\* OrderBot._is_potential_order: re.search of ^(.*?)\s+(\d+)\s*(GEL|kg)?\s+(.+)$
\* in a text of one line
_is_potential_order(text) ==
  \E k \in 1..(Len(text) - 1) :
     /\ IsSpace(text[k])
     /\ IsDigit(text[k + 1])
     /\ OrderTail(SubSeq(text, k + 1 + RunLen("digit", SubSeq(text, k + 1, Len(text))), Len(text)))

RECURSIVE RemoveAll(_, _)
\* s.replace(old, '') for a non-empty old
RemoveAll(s, old) ==
  IF Len(s) < Len(old) THEN s
  ELSE IF StartsWith(s, old) THEN RemoveAll(SubSeq(s, Len(old) + 1, Len(s)), old)
  ELSE <<Head(s)>> \o RemoveAll(Tail(s), old)

\* group 3 of (\d+)\s*(GEL|kg|...)?\s*(.+) when r, not empty, is what follows
\* the digits: the optional parts are given up from the right until (.+) has
\* a character to take
SimpleGroup3(r) ==
  LET Rest(r1) ==
        LET units == {i \in DOMAIN SimpleUnits : StartsWith(Lower(r1), SimpleUnits[i])}
            After(u) ==
              LET r2 == LStrip(SubSeq(r1, Len(u) + 1, Len(r1)))
              IN IF r2 # <<>> THEN r2
                 ELSE IF Len(r1) > Len(u) THEN <<" ">>
                 ELSE r1
        IN IF r1 = <<>> THEN <<" ">>
           ELSE IF units = {} THEN r1
           ELSE After(SimpleUnits[CHOOSE i \in units : \A j \in units : i <= j])
  IN Rest(LStrip(r))

\* the first key of the index whose record is customer_full, NONE when none
KeyOfRecord(idx, customer_full) ==
  LET hits == SelectSeq(idx, LAMBDA e : e[2] = customer_full)
  IN IF hits = <<>> THEN NONE ELSE hits[1][1]

\* the search of (\d+)\s*(GEL|kg|...)?\s*(.+) in t: <<amount, product>>, or
\* <<>> when it does not match
SimpleSearch(t) ==
  LET starts == {i \in DOMAIN t : IsDigit(t[i])}
      At(i) ==
        LET And(n) ==
              IF i + n <= Len(t)
                THEN <<IntVal(SubSeq(t, i, i + n - 1)),
                       Strip(SimpleGroup3(SubSeq(t, i + n, Len(t))))>>
              ELSE IF n >= 2
                THEN <<IntVal(SubSeq(t, i, i + n - 2)), <<t[Len(t)]>> >>
              ELSE <<>>
        IN And(RunLen("digit", SubSeq(t, i, Len(t))))
  IN IF starts = {} THEN <<>>
     ELSE At(CHOOSE i \in starts : \A j \in starts : i <= j)

\* OrderBot._parse_order_simple (order_bot.py): the order in the text less
\* the key of customer_full, NoOrder when there is none
_parse_order_simple(idx, text, customer_full) ==
  LET Parsed(m) ==
        IF m # <<>> /\ m[1] > 0 /\ m[2] # <<>>
          THEN GptOut("json", customer_full, m[1], m[2])
          ELSE NoOrder
      Without(customer_name) ==
        IF customer_name = NONE \/ customer_name = <<>> THEN NoOrder
        ELSE Parsed(SimpleSearch(Strip(RemoveAll(text, customer_name))))
  IN Without(KeyOfRecord(idx, customer_full))

\* --------------------------------------------------- order parsing by LLM
\* OrderBot._validate_parsed_order (order_bot.py, order_bot_backup.py) of the
\* object of a "json" completion
_validate_parsed_order(parsed) ==
  parsed.kind = "json" /\ parsed.amount > 0 /\ Strip(parsed.product) # <<>>

\* the retry wrapper of parse_order_with_gpt with every failure retried
CallsMade_any_failure(outs) ==
  LET final == {i \in 1..MAX_RETRIES : outs[i].kind \notin {"rate_limit", "auth", "error"}}
  IN IF final = {} THEN MAX_RETRIES ELSE CHOOSE i \in final : \A j \in final : i <= j

\* the retry wrapper of parse_order_with_gpt: the number of completion calls
\* made when the calls end as outs says, in order. A call is made again only
\* after a RateLimitError, which the body re-raises, for MAX_RETRIES attempts.
CallsMade(outs) ==
  LET final == {i \in 1..MAX_RETRIES : outs[i].kind # "rate_limit"}
  IN IF final = {} THEN MAX_RETRIES ELSE CHOOSE i \in final : \A j \in final : i <= j

\* what parse_order_with_gpt ends in after its calls: calls are the
\* completion calls made, outcome is "parsed" (parsed is returned), "none"
\* (None is returned) or "raise" (tenacity.RetryError leaves the method)
ParseEnd(calls, accepted) ==
  LET o == calls[Len(calls)]
  IN [calls |-> calls,
      outcome |-> IF o.kind = "rate_limit" THEN "raise"
                  ELSE IF accepted THEN "parsed" ELSE "none",
      parsed |-> IF o.kind # "rate_limit" /\ accepted THEN o ELSE NoOrder]

\* OrderBot.parse_order_with_gpt (order_bot.py): a parsed order is returned
\* only with a customer that is a value of the index
parse_order_with_gpt(idx, outs) ==
  LET End(calls) ==
        ParseEnd(calls, /\ _validate_parsed_order(calls[Len(calls)])
                        /\ calls[Len(calls)].customer \in DictValues(idx))
  IN End(SubSeq(outs, 1, CallsMade(outs)))

\* OrderBot.parse_order_with_gpt (order_bot_backup.py): the customer of the
\* parsed order is not looked up
parse_order_with_gpt_backup(idx, outs) ==
  LET End(calls) == ParseEnd(calls, _validate_parsed_order(calls[Len(calls)]))
  IN End(SubSeq(outs, 1, CallsMade(outs)))

\* ImprovedOrderBot._validate_parsed_order (improved_order_bot.py): the
\* customer, stripped, is not empty and is a value of the index
_validate_parsed_order_improved(idx, parsed) ==
  /\ _validate_parsed_order(parsed)
  /\ Strip(parsed.customer) # <<>>
  /\ Strip(parsed.customer) \in DictValues(idx)

\* Config.gpt_cache_ttl and Config.max_cache_size (improved_order_bot.py)
GPT_CACHE_TTL == 300
MAX_CACHE_SIZE == 1000

\* GPTCache._make_key: the text, lowercased and stripped, and the digest of
\* the sorted customer list, which is modelled by the list as a multiset
_make_key(text, customer_list) ==
  <<Strip(Lower(text)),
    [c \in {customer_list[i] : i \in DOMAIN customer_list} |->
       Cardinality({i \in DOMAIN customer_list : customer_list[i] = c})]>>

\* GPTCache.__init__: the cache object, its two tables empty. _cache maps a
\* key to the value and the time it was stored at, _access_times maps a key
\* to the time of its last hit or store.
GPTCache(ttl, max_size) ==
  [ttl |-> ttl, max_size |-> max_size, _cache |-> <<>>, _access_times |-> <<>>]

\* a get that removes no entry
cache_get_keep(cache, t, key) ==
  LET Entry(e) ==
        IF t - e.timestamp < cache.ttl
          THEN [cache |-> [cache EXCEPT !._access_times = DictSet(@, key, t)],
                value |-> e.value, event |-> "cache_hit"]
          ELSE [cache |-> cache, value |-> NoOrder, event |-> "cache_expired"]
  IN IF DictHas(cache._cache, key) THEN Entry(DictGet(cache._cache, key))
     ELSE [cache |-> cache, value |-> NoOrder, event |-> "none"]

\* GPTCache.get at time t: the cache after the call, the value returned
\* (NoOrder for None) and the event it logs
cache_get(cache, t, key) ==
  LET Entry(e) ==
        IF t - e.timestamp < cache.ttl
          THEN [cache |-> [cache EXCEPT !._access_times = DictSet(@, key, t)],
                value |-> e.value, event |-> "cache_hit"]
          ELSE [cache |-> [cache EXCEPT !._cache = DictDel(@, key),
                                        !._access_times = DictDel(@, key)],
                value |-> NoOrder, event |-> "cache_expired"]
  IN IF DictHas(cache._cache, key) THEN Entry(DictGet(cache._cache, key))
     ELSE [cache |-> cache, value |-> NoOrder, event |-> "none"]

\* min(self._access_times, key=self._access_times.get): the first key with
\* the least access time
OldestKey(access_times) ==
  access_times[CHOOSE i \in DOMAIN access_times :
                 \A j \in DOMAIN access_times :
                    \/ access_times[i][2] < access_times[j][2]
                    \/ access_times[i][2] = access_times[j][2] /\ i <= j][1]

\* a set that never evicts
cache_set_no_evict(cache, t, key, value) ==
  [cache EXCEPT !._cache = DictSet(@, key, [value |-> value, timestamp |-> t]),
                !._access_times = DictSet(@, key, t)]

\* GPTCache.set at time t
cache_set(cache, t, key, value) ==
  LET Evict(oldest_key) ==
        [cache EXCEPT !._cache = DictDel(@, oldest_key),
                      !._access_times = DictDel(@, oldest_key)]
      Store(c) ==
        [c EXCEPT !._cache = DictSet(@, key, [value |-> value, timestamp |-> t]),
                  !._access_times = DictSet(@, key, t)]
  IN Store(IF Len(cache._cache) >= cache.max_size
             THEN Evict(OldestKey(cache._access_times)) ELSE cache)

\* GPTCache.clear
cache_clear(cache) == [cache EXCEPT !._cache = <<>>, !._access_times = <<>>]

\* ImprovedOrderBot.parse_order_with_gpt (improved_order_bot.py) at time t: a
\* cached order is returned without a call; an order parsed and validated is
\* cached under the text and the first 50 records of the index
parse_order_with_gpt_improved(cache, t, idx, text, outs) ==
  LET End(calls) ==
        ParseEnd(calls, _validate_parsed_order_improved(idx, calls[Len(calls)]))
      Miss(c, key, r) ==
        [calls |-> r.calls, outcome |-> r.outcome, parsed |-> r.parsed,
         cache |-> IF r.outcome = "parsed" THEN cache_set(c, t, key, r.parsed) ELSE c]
      Got(key, g) ==
        IF g.value # NoOrder
          THEN [calls |-> <<>>, outcome |-> "parsed", parsed |-> g.value, cache |-> g.cache]
          ELSE Miss(g.cache, key, End(SubSeq(outs, 1, CallsMade(outs))))
      Keyed(key) == Got(key, cache_get(cache, t, key))
  IN Keyed(_make_key(text, SubSeq([i \in DOMAIN idx |-> idx[i][2]], 1,
                                  IF Len(idx) < 50 THEN Len(idx) ELSE 50)))

\* no add command waits for update_gcp_secret
NoAdd == [text |-> <<>>, customer |-> NONE, customers |-> <<>>, name_to_full |-> <<>>]

\* user_data['pending_order'] when there is none
NoPending == [name |-> NONE, amount |-> 0, product |-> NONE, message_id |-> 0, timestamp |-> 0]

\* context.user_data of a user who has not written yet; last_message is
\* user_data['last_message_<user_id>'], 0 when it is not set
NewUser == [adding_customer |-> FALSE, pending_order |-> NoPending, last_message |-> 0]

\* no message of the user was accepted yet
Never == -1

\* ------------------------------------------- order bots: message handling
\* Config.MESSAGE_COOLDOWN, Config.PENDING_ORDER_TIMEOUT and
\* Config.CLEANUP_INTERVAL (order_bot.py, order_bot_backup.py), in seconds
MESSAGE_COOLDOWN == 5
PENDING_ORDER_TIMEOUT == 300
CLEANUP_INTERVAL == 600

\* what a handler leaves: the state it wrote, the reply it sent, the record it
\* resolved (result), the record of the ledger rows it appended (row) and how
\* parse_order_with_gpt ended (outcome). When an exception left the handler
\* the reply is "exception" and raised is what raised it: the LLM calls
\* ("llm"), record_to_sheets ("sheets"), save_customers ("save"), the replies
\* of try_record ("net") or a reply to update.message of an edited message,
\* which is None ("edit").
Handled(cust, idx, led, pend, ud, reply, result, row, raised, outcome) ==
  [customers |-> cust, name_to_full |-> idx, ledger |-> led, pending_messages |-> pend,
   user_data |-> ud, reply |-> reply, result |-> result, row |-> row, raised |-> raised,
   outcome |-> outcome]

\* a rate limit that also rejects a message sent exactly one cooldown after
\* the last accepted one
_check_rate_limit_strict(ud, t, u) == ~(t - ud[u].last_message <= MESSAGE_COOLDOWN)

\* OrderBot._check_rate_limit (order_bot.py, order_bot_backup.py): is the
\* message of user u at time t accepted
_check_rate_limit(ud, t, u) == ~(t - ud[u].last_message < MESSAGE_COOLDOWN)

\* ImprovedOrderBot._check_rate_limit at time t for user u. The dictionary
\* self.user_last_message is the field last_message of ud, 0 standing for a
\* missing key (it is read with get(user_id, 0)).
_check_rate_limit_improved(ud, t, u) ==
  IF t - ud[u].last_message < MESSAGE_COOLDOWN
    THEN [accepted |-> FALSE, user_data |-> ud]
    ELSE [accepted |-> TRUE, user_data |-> [ud EXCEPT ![u].last_message = t]]

\* ImprovedOrderBot._cleanup_old_data at time t, on self.user_last_message:
\* the times not later than two cooldowns ago are dropped
_cleanup_old_data(ud, t) ==
  [u \in DOMAIN ud |->
     IF ud[u].last_message > t - MESSAGE_COOLDOWN * 2 THEN ud[u]
     ELSE [ud[u] EXCEPT !.last_message = 0]]

\* OrderBot._handle_add_customer (order_bot.py, order_bot_backup.py) for the
\* text of user u in adding mode. save and sheets are how save_customers and
\* record_to_sheets end ("ok" or "fail", which raises). The replies go to
\* update.message, which is None for an edited message: the reply raises then.
_handle_add_customer(cust, idx, led, pend, ud, u, text, is_edited, save, sheets) ==
  LET Off == [ud EXCEPT ![u].adding_customer = FALSE, ![u].pending_order = NoPending]
      Add(full, new_name, pending) ==
        IF pending # NoPending /\ new_name = pending.name
          THEN IF DictHas(idx, new_name)
                 THEN Handled(cust, idx, led, pend, ud,
                              IF is_edited THEN "exception" ELSE "exists", NONE, NONE,
                              IF is_edited THEN "edit" ELSE "none", "none")
               ELSE IF save = "fail" \/ sheets = "fail"
                 THEN Handled(Append(cust, full), DictSet(idx, new_name, full), led, pend, ud,
                              "exception", NONE, NONE,
                              IF save = "fail" THEN "save" ELSE "sheets", "none")
               ELSE Handled(Append(cust, full), DictSet(idx, new_name, full),
                            Append(led, [customer |-> _sanitize_sheet_data(full),
                                         amount |-> pending.amount,
                                         product |-> _sanitize_sheet_data(pending.product)]),
                            pend, IF is_edited THEN ud ELSE Off,
                            IF is_edited THEN "exception" ELSE "added", full, full,
                            IF is_edited THEN "edit" ELSE "none", "none")
          ELSE Handled(cust, idx, led, pend, IF is_edited THEN ud ELSE Off,
                       IF is_edited THEN "exception" ELSE "mismatch", NONE, NONE,
                       IF is_edited THEN "edit" ELSE "none", "none")
      Named(new_customer) ==
        Add(new_customer,
            IF CodeMatches(new_customer) THEN Strip(CodeGroup2(new_customer)) ELSE new_customer,
            ud[u].pending_order)
  IN Named(Strip(text))

\* OrderBot._process_order (order_bot.py, order_bot_backup.py) of bot b at
\* time t for a text that looks like an order: order_bot.py first looks for a
\* key of the index in the text and parses the rest by rule, and asks the LLM
\* when that gives no order; order_bot_backup.py asks the LLM at once. The
\* result is every way it can end, over the ways outs the completion calls
\* end (gpt_seqs) and the ways att the attempts of try_record end (attempts;
\* record_to_sheets is only called for a resolved customer).
_process_order(b, cust, idx, led, pend, ud, t, u, message_id, text, is_edited, gpt_seqs, attempts) ==
  LET Tried(r, att, outcome) ==
        Handled(cust, idx, r.ledger, r.pending_messages, r.user_data, r.reply, r.result, r.row,
                IF r.reply # "exception" THEN "none"
                ELSE IF att[Len(att)] = "sheets" THEN "sheets" ELSE "net",
                outcome)
      Record(parsed, outcome) ==
        UNION {{Tried(r, att, outcome) :
                  r \in {q \in {try_record(b, idx, led,
                                           IF is_edited THEN pend \ {message_id} ELSE pend, ud, t,
                                           u, message_id, parsed.customer, parsed.amount,
                                           parsed.product, att)} :
                           q.result = NONE => "sheets" \notin {att[i] : i \in DOMAIN att}}} :
               att \in attempts}
      Gpt(g) ==
        IF g.outcome = "raise"
          THEN {Handled(cust, idx, led, pend, ud, "exception", NONE, NONE, "llm", "raise")}
        ELSE IF g.outcome = "parsed" /\ _validate_parsed_order(g.parsed)
          THEN Record(g.parsed, "parsed")
        ELSE {Handled(cust, idx, led, pend, ud, "format_help", NONE, NONE, "none", "none")}
      Asked == UNION {Gpt(IF b = "order_bot" THEN parse_order_with_gpt(idx, outs)
                          ELSE parse_order_with_gpt_backup(idx, outs)) : outs \in gpt_seqs}
      Simple(simple) == IF simple # NoOrder THEN Record(simple, "none") ELSE Asked
      Found(customer_found) ==
        IF customer_found # NONE THEN Simple(_parse_order_simple(idx, text, customer_found))
        ELSE Asked
  IN IF b = "order_bot" THEN Found(_find_customer_in_text(idx, text).result) ELSE Asked

\* ------------------------------------------------------------ input pools
\* records a customer list is loaded with: "(1) ab" (code and name), "ab" and
\* "AB" (no code), "(3)" (a code and no name), " b" (padded)
RecordPool ==
  { <<"(", "1", ")", " ", "a", "b">>, <<"a", "b">>, <<"A", "B">>,
    <<"(", "3", ")">>, <<" ", "b">> }

\* candidate names find_customer is called with: the records and "aB", "a",
\* "b", "c"
NamePool == RecordPool \cup { <<"a", "B">>, <<"a">>, <<"b">>, <<"c">> }

\* what the completion of map_customer_with_gpt holds, or ERROR
RespPool ==
  { NULL, ERROR, <<"(", "1", ")", " ", "a", "b">>, <<"a", "b", " ">>, <<"z", "z">> }

\* what the completion of extract_payment_with_ai holds
AiPool ==
  { [kind |-> "error", name |-> <<>>, amount |-> 0],
    [kind |-> "null", name |-> <<>>, amount |-> 0],
    [kind |-> "json", name |-> <<"a", "b">>, amount |-> 500],
    [kind |-> "json", name |-> <<" ">>, amount |-> 500],
    [kind |-> "json", name |-> <<"a", "b">>, amount |-> 0] }

\* texts of add commands: "new:(2) ab", "new:ab", "new:(3)", "new:", "new: b "
CommandPool ==
  { NewPrefix \o <<"(", "2", ")", " ", "a", "b">>, NewPrefix \o <<"a", "b">>,
    NewPrefix \o <<"(", "3", ")">>, NewPrefix, NewPrefix \o <<" ", "b", " ">> }

\* texts of the messages the payment bot receives: the add commands, the
\* payments "ab 5", "b 5", "c 5", "ab 0" and a text without amount, "ab"
TextPool ==
  CommandPool \cup
  { <<"a", "b", " ", "5">>, <<"b", " ", "5">>, <<"c", " ", "5">>,
    <<"a", "b", " ", "0">>, <<"a", "b">> }

\* the prefix of the add command of payment-bot/app.py and orderapp.py
AppNewPrefix == <<"n", "e", "w", " ">>

\* texts of the messages payment-bot/app.py receives: the add commands
\* "new ab", "new (1) ab", "NEW b", the payments "ab 5", "c 5", the text "ab"
AppTextPool ==
  { AppNewPrefix \o <<"a", "b">>, AppNewPrefix \o <<"(", "1", ")", " ", "a", "b">>,
    <<"N", "E", "W", " ", "b">>,
    <<"a", "b", " ", "5">>, <<"c", " ", "5">>, <<"a", "b">> }

\* texts of order messages: "ab 5 x", "aab 5 x" (a typo of ab), "c 5 x"
OrderTextPool ==
  { <<"a", "b", " ", "5", " ", "x">>, <<"a", "a", "b", " ", "5", " ", "x">>,
    <<"c", " ", "5", " ", "x">> }

\* texts parse_order_with_gpt is called with: "ab 5 x", "c 5 x"
ParseTextPool == { <<"a", "b", " ", "5", " ", "x">>, <<"c", " ", "5", " ", "x">> }

\* customer names an LLM puts in a parsed order
OrderNamePool == { <<"a", "b">>, <<"b">>, <<"c">>, <<"(", "1", ")", " ", "a", "b">> }

\* what a completion call of parse_order_with_gpt ends in: RateLimitError,
\* AuthenticationError, another exception or a text that is not JSON
\* ("error"), null, or an order for "(1) ab", for an unknown "zz", for the
\* short name "ab", or with the amount 0
GptPool ==
  { GptOut("rate_limit", <<>>, 0, <<>>), GptOut("auth", <<>>, 0, <<>>),
    GptOut("error", <<>>, 0, <<>>), GptOut("null", <<>>, 0, <<>>),
    GptOut("json", <<"(", "1", ")", " ", "a", "b">>, 5, <<"x">>),
    GptOut("json", <<"z", "z">>, 5, <<"x">>),
    GptOut("json", <<"a", "b">>, 5, <<"x">>),
    GptOut("json", <<"(", "1", ")", " ", "a", "b">>, 0, <<"x">>) }

\* a completion whose customer is the record "(1) ab" followed by a space
GptPaddedPool == { GptOut("json", <<"(", "1", ")", " ", "a", "b", " ">>, 5, <<"x">>) }

\* what the calls after the first end in
GptRetryPool ==
  { GptOut("rate_limit", <<>>, 0, <<>>),
    GptOut("json", <<"(", "1", ")", " ", "a", "b">>, 5, <<"x">>) }

\* how the MAX_RETRIES calls a parse_order_with_gpt may make end, in order
GptSeqs ==
  {outs \in [1..MAX_RETRIES -> GptPool] : \A i \in 2..MAX_RETRIES : outs[i] \in GptRetryPool}

\* how the calls of a parse_order_with_gpt called on its own end
ParseGptSeqs ==
  {outs \in [1..MAX_RETRIES -> GptPool \cup GptPaddedPool] :
     \A i \in 2..MAX_RETRIES : outs[i] \in GptRetryPool}

\* the records an order bot is loaded with in the conversation model: "(1) ab"
OrderRecordPool == { <<"(", "1", ")", " ", "a", "b">> }

\* the texts users send to an order bot: the orders "ab 5 x" and "zz 5 x",
\* the text "ab", which is no order, and the record "(2) zz"
OrderMsgPool ==
  { <<"a", "b", " ", "5", " ", "x">>, <<"z", "z", " ", "5", " ", "x">>, <<"a", "b">>,
    <<"(", "2", ")", " ", "z", "z">> }

\* the instants at which messages reach a bot that starts at the time
\* MESSAGE_COOLDOWN, for the rate limit: every second of the first MaxElapsed,
\* and the second after which the improved bot's cleanup is due
RateTimePool ==
  (MESSAGE_COOLDOWN + 1 .. MESSAGE_COOLDOWN + MaxElapsed)
    \cup {MESSAGE_COOLDOWN + CLEANUP_INTERVAL + 1}

\* the texts of a customer record, a product or a sender's name: "ab", and
\* "a", "b" with a newline or a carriage return between them
CellPool == { <<"a", "b">>, <<"a", "\n", "b">>, <<"a", "\r", "b">> }

\* the amounts of the rows: "5" and "15"
AmountCellPool == { <<"5">>, <<"1", "5">> }

\* the source of a payment: 'Direct' or 'Edited'
SourcePool == { <<"D", "i", "r", "e", "c", "t">>, <<"E", "d", "i", "t", "e", "d">> }

\* the names of the payments parse_payment of app.py is called with: "ab"
\* and "a b"
PayNamePool == { <<"a", "b">>, <<"a", " ", "b">> }

\* the amounts of these payments: the numbers of one to MaxDigits digits out
\* of 0, 1 and 5, alone or followed by ".5"
PayAmountPool ==
  LET ints == UNION {[1..n -> {"0", "1", "5"}] : n \in 1..MaxDigits}
  IN ints \cup {ds \o <<".", "5">> : ds \in ints}

\* the texts the cache is asked for: "a", "b", "c" and "A ", which has the
\* key of "a"
CacheTextPool == { <<"a">>, <<"b">>, <<"c">>, <<"A", " ">> }

\* the customer list the cache is asked for
CacheListPool == { <<<<"(", "1", ")", " ", "a", "b">>>> }

\* the parsed orders stored in the cache
CacheValuePool ==
  { GptOut("json", <<"(", "1", ")", " ", "a", "b">>, 5, <<"x">>),
    GptOut("json", <<"(", "1", ")", " ", "a", "b">>, 7, <<"x">>) }

\* the instants at which a cache made at the time MESSAGE_COOLDOWN is used:
\* a second later, and when an entry stored at the start is a second younger
\* than the TTL, exactly as old and a second older
CacheTimePool ==
  { MESSAGE_COOLDOWN + 1, MESSAGE_COOLDOWN + GPT_CACHE_TTL - 1,
    MESSAGE_COOLDOWN + GPT_CACHE_TTL, MESSAGE_COOLDOWN + GPT_CACHE_TTL + 1 }

\* the instants at which updates reach an order bot that starts at the time
\* MESSAGE_COOLDOWN, for the sweep of the pending orders: when an order
\* pending from the start is exactly as old as the timeout and one second
\* older, and when the first clear_pending is due
TimePool ==
  { MESSAGE_COOLDOWN + PENDING_ORDER_TIMEOUT, MESSAGE_COOLDOWN + PENDING_ORDER_TIMEOUT + 1,
    MESSAGE_COOLDOWN + CLEANUP_INTERVAL }

\* the users that write to an order bot in the conversation model
OrderUsers == {1, 2}

\* the users that write to the bot and the ids of their messages
Users == {1}
MessageIds == {1}

\* what the start-up load of improved_order_bot.py ends with: the list of
\* customers.json or of the GCP secret, or the empty list when both fail
LoadPool == { <<>>, << <<"(", "1", ")", " ", "a", "b">> >>, << <<"a", "b">> >> }

\* the add commands sent while the customers are loaded: "new:(2) ab", "new:ab"
ReloadCommandPool ==
  { NewPrefix \o <<"(", "2", ")", " ", "a", "b">>, NewPrefix \o <<"a", "b">> }

\* the order text parsed between adds and the load: "c 5 x"
ReloadTextPool == { <<"c", " ", "5", " ", "x">> }

\* how the calls of these parse_order_with_gpt end: the first completion names
\* the record "(1) ab", the record followed by a space, "ab" or "zz"
ReloadGptSeqs ==
  {outs \in ParseGptSeqs :
     /\ outs[1].kind = "json" /\ outs[1].amount > 0
     /\ \A i \in 2..MAX_RETRIES : outs[i].kind = "rate_limit"}

\* the ids of two messages of one chat, in the order they were sent
TwoMessageIds == {1, 2}

\* the bot variants, by source file
Bots == {"bot", "payment_app", "order_bot", "order_bot_backup", "orderapp", "improved_order_bot"}

\* ------------------------------------------------------------------ state
VARIABLES
  bot,           \* which variant runs
  customers,     \* self.customers
  name_to_full,  \* self.name_to_full
  ledger,        \* the rows appended to the worksheet, oldest first
  pending_messages,  \* self.pending_messages of the order bots
  user_data,     \* context.user_data of each user
  now,           \* time.time(), in seconds
  inflight,      \* the add command that waits for update_gcp_secret, if any
  gpt_cache,     \* self.gpt_cache of improved_order_bot.py
  prompts,       \* the messages whose prompt to add a customer is in the chat
  next_cleanup,  \* the time the job queue runs clear_pending next
  accepted_at,   \* history: when the rate limit last accepted a message of each user
  load_task,     \* the start-up task _load_customers: "pending" or "done"
  last           \* what the last call did: its input, result and replies

vars == <<bot, customers, name_to_full, ledger, pending_messages, user_data, now, inflight,
          gpt_cache, prompts, next_cleanup, accepted_at, load_task, last>>

\* the variables of the order bots' conversation state
orderVars == <<pending_messages, user_data, now, gpt_cache, prompts, next_cleanup, accepted_at>>

\* the record `last` holds when nothing has been called
Idle ==
  [op |-> "none", arg |-> <<>>, resp |-> NONE, result |-> NONE, ran |-> <<>>,
   reply |-> "none", row |-> NONE, calls |-> <<>>, outcome |-> "none", parsed |-> NoOrder,
   user |-> 0, raised |-> "none", message_id |-> 0]

\* the state after construction: the list as loaded and the index built from
\* it. order_bot_backup.py refuses to start on an empty list.
Init ==
  /\ bot \in Bots
  /\ customers \in SeqsUpTo(RecordPool, MaxCustomers)
  /\ bot = "order_bot_backup" => customers # <<>>
  /\ name_to_full = BuildIndex(bot, customers)
  /\ ledger = <<>>
  /\ pending_messages = {}
  /\ user_data = [u \in Users |-> NewUser]
  /\ now = 0
  /\ inflight = NoAdd
  /\ gpt_cache = GPTCache(GPT_CACHE_TTL, MAX_CACHE_SIZE)
  /\ prompts = {}
  /\ next_cleanup = CLEANUP_INTERVAL
  /\ accepted_at = [u \in Users |-> Never]
  /\ load_task = "done"
  /\ last = Idle

\* ---------------------------------------------------------------- actions
\* does a resolution result report an LLM call
CalledLlm(r) == \E i \in DOMAIN r.ran : r.ran[i] = "llm"

\* the LLM answers a call can see, given its outcome r for the answer "null":
\* those of RespPool when the call reaches the LLM, none (NONE) when it does not
RespsFor(r) == IF CalledLlm(r) THEN RespPool ELSE {NONE}

\* a call of find_customer of bot.py or payment-bot/app.py with the candidate
\* name; resp is what the LLM answers when it is asked
FindCustomer(name) ==
  /\ bot \in {"bot", "payment_app"}
  /\ LET Find(resp) == IF bot = "bot"
                         THEN find_customer(customers, name_to_full, name, resp)
                         ELSE find_customer_app(customers, name_to_full, name, resp)
     IN \E resp \in RespsFor(Find(NULL)) :
          \E found \in {Find(resp)} :
            last' = [Idle EXCEPT !.op = "find_customer", !.arg = name, !.resp = resp,
                                 !.result = found.result, !.ran = found.ran]
  /\ UNCHANGED <<bot, load_task, inflight, customers, name_to_full, ledger, orderVars>>

\* record_to_sheets with an append that is lost while the method reports what
\* the Sheets call reported
record_to_sheets_lost(rows, customer, amount, sheets_ok) == rows

\* PaymentBot.record_to_sheets (bot.py): the ledger after the call; the append
\* happens only when the Sheets call succeeds (sheets_ok), the method returns
\* sheets_ok
record_to_sheets(rows, customer, amount, sheets_ok) ==
  IF sheets_ok THEN Append(rows, [customer |-> customer, amount |-> amount]) ELSE rows

\* the branch of PaymentBot.handle_message (bot.py) for a text that starts with
\* "new:": handle_new_customer_command; success is the outcome of
\* update_gcp_secret
NewCustomerCommand(text) ==
  /\ StartsWith(text, NewPrefix)
  /\ \E success \in BOOLEAN :
       LET r == IF bot = "bot"
                  THEN handle_new_customer_command(customers, name_to_full, text, success)
                  ELSE handle_new_customer_command_improved(customers, name_to_full, text, success)
       IN /\ Len(r.customers) <= MaxCustomers
          /\ customers' = r.customers
          /\ name_to_full' = r.name_to_full
          /\ last' = [Idle EXCEPT !.op = "new_customer", !.arg = text, !.reply = r.reply]
  /\ UNCHANGED ledger

\* the rest of PaymentBot.handle_message (bot.py): the payment is parsed (ai is
\* the fallback extraction), resolved (resp is the LLM mapping answer) and
\* recorded (sheets_ok); an unparsed text is dropped without a reply
Payment(text) ==
  /\ ~StartsWith(text, NewPrefix)
  /\ \E regex \in {parse_payment(text)} :
     \E parsed \in IF regex.ok THEN {regex} ELSE {extract_payment_with_ai(ai) : ai \in AiPool} :
       IF ~parsed.ok
         THEN /\ last' = [Idle EXCEPT !.op = "handle_message", !.arg = text]
              /\ UNCHANGED ledger
         ELSE \E resp \in RespsFor(find_customer(customers, name_to_full, parsed.name, NULL)) :
              \E found \in {find_customer(customers, name_to_full, parsed.name, resp)} :
                IF found.result = NONE
                  THEN /\ last' = [Idle EXCEPT !.op = "handle_message", !.arg = text,
                                     !.resp = resp, !.ran = found.ran, !.reply = "not_found"]
                       /\ UNCHANGED ledger
                  ELSE \E sheets_ok \in BOOLEAN :
                         /\ ledger' = record_to_sheets(ledger, found.result, parsed.amount, sheets_ok)
                         /\ last' = [Idle EXCEPT
                                       !.op = "handle_message", !.arg = text,
                                       !.resp = resp, !.result = found.result,
                                       !.ran = found.ran,
                                       !.reply = IF sheets_ok THEN "recorded" ELSE "record_failed",
                                       !.row = IF sheets_ok THEN found.result ELSE NONE]
  /\ UNCHANGED <<customers, name_to_full>>

\* PaymentBot.handle_message (bot.py) for a message with the text `text`;
\* message_count is only ever incremented and is left out
HandleMessage(text) ==
  /\ bot = "bot"
  /\ text # <<>>
  /\ Len(ledger) < MaxLedger
  /\ NewCustomerCommand(text) \/ Payment(text)
  /\ UNCHANGED <<bot, load_task, inflight, orderVars>>

\* ImprovedOrderBot.handle_new_customer_command for a text that starts with
\* "new:"
ImprovedNewCustomer(text) ==
  /\ bot = "improved_order_bot"
  /\ NewCustomerCommand(text)
  /\ UNCHANGED <<bot, load_task, inflight, orderVars>>

\* a call of add_customer of order-bot/orderapp.py or payment-bot/app.py
AddCustomer(new_customer) ==
  /\ bot \in {"orderapp", "payment_app"}
  /\ \E r \in {add_customer(customers, name_to_full, new_customer)} :
       /\ Len(r.customers) <= MaxCustomers
       /\ customers' = r.customers
       /\ name_to_full' = r.name_to_full
       /\ last' = [Idle EXCEPT !.op = "add_customer", !.arg = new_customer,
                               !.reply = IF r.customers # customers THEN "added" ELSE "none"]
  /\ UNCHANGED <<bot, load_task, inflight, ledger, orderVars>>

\* PaymentBot.handle_message (payment-bot/app.py) for a message with the text
\* `text`: is_admin tells whether the sender is in self.admins, to_not_found
\* whether the message replies to a "not found" message of the bot; resp is
\* the LLM mapping answer, sheets_ok how the Sheets call ends
AppHandleMessage(is_admin, to_not_found, text) ==
  /\ bot = "payment_app"
  /\ text # <<>>
  /\ Len(ledger) < MaxLedger
  /\ IF is_admin /\ (StartsWith(Lower(text), AppNewPrefix) \/ to_not_found)
       THEN \E r \in {add_customer(customers, name_to_full,
                                   IF StartsWith(Lower(text), AppNewPrefix)
                                     THEN Strip(SubSeq(text, 5, Len(text)))
                                     ELSE Strip(text))} :
              /\ Len(r.customers) <= MaxCustomers
              /\ customers' = r.customers
              /\ name_to_full' = r.name_to_full
              /\ last' = [Idle EXCEPT !.op = "new_customer", !.arg = text, !.reply = "added"]
              /\ UNCHANGED ledger
       ELSE /\ \E parsed \in {parse_payment_app(text)} :
                 IF ~parsed.ok
                   THEN /\ last' = [Idle EXCEPT !.op = "handle_message", !.arg = text]
                        /\ UNCHANGED ledger
                   ELSE \E resp \in RespsFor(find_customer_app(customers, name_to_full, parsed.name, NULL)) :
                        \E found \in {find_customer_app(customers, name_to_full, parsed.name, resp)} :
                          IF found.result = NONE
                            THEN /\ last' = [Idle EXCEPT !.op = "handle_message", !.arg = text,
                                               !.resp = resp, !.ran = found.ran, !.reply = "not_found"]
                                 /\ UNCHANGED ledger
                            ELSE \E sheets_ok \in BOOLEAN :
                                   /\ ledger' = record_to_sheets(ledger, found.result, parsed.amount, sheets_ok)
                                   /\ last' = [Idle EXCEPT
                                                 !.op = "handle_message", !.arg = text,
                                                 !.resp = resp, !.result = found.result,
                                                 !.ran = found.ran,
                                                 !.reply = IF sheets_ok THEN "recorded" ELSE "record_failed",
                                                 !.row = IF sheets_ok THEN found.result ELSE NONE]
            /\ UNCHANGED <<customers, name_to_full>>
  /\ UNCHANGED <<bot, load_task, inflight, orderVars>>

\* the task ImprovedOrderBot.__init__ creates for _load_customers completes:
\* the list is replaced by what was loaded and the index is rebuilt from it
LoadCustomers(data) ==
  /\ bot = "improved_order_bot"
  /\ load_task = "pending"
  /\ load_task' = "done"
  /\ customers' = data
  /\ name_to_full' = ImprovedBuildFrom(data, <<>>)
  /\ last' = [Idle EXCEPT !.op = "load_customers"]
  /\ UNCHANGED <<bot, inflight, ledger, orderVars>>

\* a call of _find_customer_in_text of order_bot.py or order-bot/orderapp.py
FindCustomerInText(text) ==
  /\ bot \in {"order_bot", "orderapp"}
  /\ LET r == _find_customer_in_text(name_to_full, text)
     IN last' = [Idle EXCEPT !.op = "find_in_text", !.arg = text,
                             !.result = r.result, !.ran = r.ran]
  /\ UNCHANGED <<bot, load_task, inflight, customers, name_to_full, ledger, orderVars>>

\* OrderBot.try_record (order_bot.py, order_bot_backup.py) for the message
\* message_id of user u; att is how its attempts end. In order_bot.py both
\* call sites pass a value of the index: the record _find_customer_in_text
\* returned, or the customer parse_order_with_gpt validated against the values.
\* The source and username arguments only reach the row and the stored order
\* as labels and are left out.
TryRecord(u, message_id, name, amount, product, att) ==
  /\ bot \in {"order_bot", "order_bot_backup"}
  /\ bot = "order_bot" => name \in DictValues(name_to_full)
  /\ \E r \in {try_record(bot, name_to_full, ledger, pending_messages, user_data, now,
                          u, message_id, name, amount, product, att)} :
       /\ Len(r.ledger) <= MaxLedger
       /\ r.result = NONE => "sheets" \notin {att[i] : i \in DOMAIN att}
       /\ ledger' = r.ledger
       /\ pending_messages' = r.pending_messages
       /\ user_data' = r.user_data
       /\ prompts' = IF r.reply = "prompt" THEN prompts \cup {message_id} ELSE prompts
       /\ last' = [Idle EXCEPT !.op = "try_record", !.arg = name, !.result = r.result,
                               !.reply = r.reply, !.row = r.row]
  /\ UNCHANGED <<bot, load_task, inflight, customers, name_to_full, now, gpt_cache, next_cleanup, accepted_at>>

\* a call of parse_order_with_gpt of order_bot.py, order_bot_backup.py or
\* improved_order_bot.py with the text of a message; outs is how the
\* completion calls it may make end
ParseOrderWithGpt(text, outs) ==
  /\ bot \in {"order_bot", "order_bot_backup", "improved_order_bot"}
  /\ \E r \in {CASE bot = "order_bot" -> parse_order_with_gpt(name_to_full, outs)
                 [] bot = "order_bot_backup" -> parse_order_with_gpt_backup(name_to_full, outs)
                 [] OTHER -> parse_order_with_gpt_improved(gpt_cache, now, name_to_full, text, outs)} :
       /\ last' = [Idle EXCEPT !.op = "parse_order_with_gpt", !.arg = text, !.calls = r.calls,
                               !.outcome = r.outcome, !.parsed = r.parsed]
       /\ gpt_cache' = IF bot = "improved_order_bot" THEN r.cache ELSE gpt_cache
  /\ UNCHANGED <<bot, load_task, inflight, customers, name_to_full, ledger, pending_messages, user_data, now,
                 prompts, next_cleanup, accepted_at>>

\* GPTCache.get(text, customer_list) on self.gpt_cache
CacheGet(text, customer_list) ==
  /\ \E r \in {cache_get(gpt_cache, now, _make_key(text, customer_list))} :
       /\ gpt_cache' = r.cache
       /\ last' = [Idle EXCEPT !.op = "cache_get", !.arg = text, !.ran = customer_list,
                               !.parsed = r.value, !.outcome = r.event]
  /\ UNCHANGED <<bot, load_task, inflight, customers, name_to_full, ledger, pending_messages, user_data, now,
                 prompts, next_cleanup, accepted_at>>

\* GPTCache.set(text, customer_list, value) on self.gpt_cache
CacheSet(text, customer_list, value) ==
  /\ gpt_cache' = cache_set(gpt_cache, now, _make_key(text, customer_list), value)
  /\ last' = [Idle EXCEPT !.op = "cache_set", !.arg = text, !.ran = customer_list,
                          !.parsed = value]
  /\ UNCHANGED <<bot, load_task, inflight, customers, name_to_full, ledger, pending_messages, user_data, now,
                 prompts, next_cleanup, accepted_at>>

\* GPTCache.clear() on self.gpt_cache
CacheClear ==
  /\ gpt_cache' = cache_clear(gpt_cache)
  /\ last' = [Idle EXCEPT !.op = "cache_clear"]
  /\ UNCHANGED <<bot, load_task, inflight, customers, name_to_full, ledger, pending_messages, user_data, now,
                 prompts, next_cleanup, accepted_at>>

\* the row record_to_sheets of bot b hands to append_row: bot.py and
\* payment-bot/app.py pass the five arguments on as they are; order_bot.py,
\* order_bot_backup.py and orderapp.py pass each through
\* _sanitize_sheet_data; improved_order_bot.py replaces the line breaks of
\* the customer, the product and the sender
sheet_row(b, timestamp, customer, amount, fourth, sender) ==
  CASE b \in {"bot", "payment_app"} -> <<timestamp, customer, amount, fourth, sender>>
    [] b = "improved_order_bot" ->
         <<timestamp, _sanitize_sheet_data(customer), amount, _sanitize_sheet_data(fourth),
           _sanitize_sheet_data(sender)>>
    [] OTHER ->
         <<_sanitize_sheet_data(timestamp), _sanitize_sheet_data(customer),
           _sanitize_sheet_data(amount), _sanitize_sheet_data(fourth),
           _sanitize_sheet_data(sender)>>

\* a call of record_to_sheets that reaches append_row, with the five cells
\* of the row; fourth is the source of a payment or the product of an order
RecordToSheets(timestamp, customer, amount, fourth, sender) ==
  /\ Len(ledger) < MaxLedger
  /\ bot \in {"bot", "payment_app"} => fourth \in SourcePool
  /\ bot \notin {"bot", "payment_app"} => fourth \in CellPool
  /\ ledger' = Append(ledger, sheet_row(bot, timestamp, customer, amount, fourth, sender))
  /\ last' = [Idle EXCEPT !.op = "record_to_sheets", !.arg = customer]
  /\ UNCHANGED <<bot, load_task, inflight, customers, name_to_full, orderVars>>

\* a call of parse_payment of payment-bot/app.py with the text made of a
\* name, a space and an amount
ParsePayment(name, amount_str) ==
  /\ bot = "payment_app"
  /\ last' = [Idle EXCEPT !.op = "parse_payment", !.arg = name \o <<" ">> \o amount_str,
                          !.ran = <<name, amount_str>>,
                          !.result = parse_payment_app(name \o <<" ">> \o amount_str)]
  /\ UNCHANGED <<bot, load_task, inflight, customers, name_to_full, ledger, orderVars>>

\* OrderBot.handle_message (order_bot.py, order_bot_backup.py) for the text
\* of the message message_id of user u: every way the handler can end, over
\* the ways the LLM calls, save_customers, record_to_sheets and the replies of
\* try_record end. The replies sent outside try_record are taken to arrive.
handle_message(u, message_id, text, is_edited) ==
  LET Accepted(ud) ==
        IF ud[u].adding_customer
          THEN {_handle_add_customer(customers, name_to_full, ledger, pending_messages, ud, u,
                                     text, is_edited, save, sheets) :
                  save \in {"ok", "fail"}, sheets \in {"ok", "fail"}}
        ELSE IF ~_is_potential_order(text)
          THEN {Handled(customers, name_to_full, ledger, pending_messages, ud, "format_help",
                        NONE, NONE, "none", "none")}
        ELSE _process_order(bot, customers, name_to_full, ledger, pending_messages, ud, now, u,
                            message_id, text, is_edited, GptSeqs, AttemptSeqs)
  IN IF ~_check_rate_limit(user_data, now, u)
       THEN {Handled(customers, name_to_full, ledger, pending_messages, user_data, "wait",
                     NONE, NONE, "none", "none")}
       ELSE Accepted([user_data EXCEPT ![u].last_message = now])

\* a text message or an edited text message reaches handle_message, in the
\* runs that leave at most cap rows in the ledger
OrderMessageWithin(cap, u, message_id, text, is_edited) ==
  /\ bot \in {"order_bot", "order_bot_backup"}
  /\ \E r \in handle_message(u, message_id, text, is_edited) :
       /\ Len(r.customers) <= MaxCustomers
       /\ Len(r.ledger) <= cap
       /\ customers' = r.customers
       /\ name_to_full' = r.name_to_full
       /\ ledger' = r.ledger
       /\ pending_messages' = r.pending_messages
       /\ user_data' = r.user_data
       /\ prompts' = IF r.reply = "prompt" THEN prompts \cup {message_id} ELSE prompts
       /\ last' = [Idle EXCEPT !.op = "handle_message", !.arg = text, !.user = u,
                               !.reply = r.reply, !.result = r.result, !.row = r.row,
                               !.outcome = r.outcome, !.raised = r.raised]
       /\ accepted_at' = IF r.reply = "wait" THEN accepted_at
                                              ELSE [accepted_at EXCEPT ![u] = now]
  /\ UNCHANGED <<bot, load_task, now, inflight, gpt_cache, next_cleanup>>

\* a text message or an edited text message reaches handle_message
OrderMessage(u, message_id, text, is_edited) ==
  OrderMessageWithin(MaxLedger, u, message_id, text, is_edited)

\* the first message that writes to an empty ledger, with every row its
\* attempts append (each of the MAX_RETRIES attempts of try_record appends
\* at most one)
FirstOrderMessage(u, message_id, text, is_edited) ==
  /\ ledger = <<>>
  /\ OrderMessageWithin(MAX_RETRIES, u, message_id, text, is_edited)

\* OrderBot.handle_callback (order_bot.py, order_bot_backup.py): user u
\* presses the button sub_action ("yes" or "no") of the prompt try_record
\* sent for the message message_id
Callback(u, sub_action, message_id) ==
  /\ bot \in {"order_bot", "order_bot_backup"}
  /\ message_id \in prompts
  /\ user_data' = IF sub_action = "yes"
                    THEN [user_data EXCEPT ![u].adding_customer = TRUE]
                    ELSE [user_data EXCEPT ![u].pending_order = NoPending]
  /\ last' = [Idle EXCEPT !.op = "handle_callback", !.user = u, !.message_id = message_id,
                          !.reply = IF sub_action = "yes" THEN "ask_name" ELSE "ignored"]
  /\ UNCHANGED <<bot, load_task, customers, name_to_full, ledger, pending_messages, now, inflight, gpt_cache,
                 prompts, next_cleanup, accepted_at>>

\* time passes up to the instant t; clear_pending runs when it is due
Tick(t) ==
  /\ now < t
  /\ t <= MaxNow
  /\ bot \in {"order_bot", "order_bot_backup"} => t <= next_cleanup
  /\ now' = t
  /\ last' = [Idle EXCEPT !.op = "tick"]
  /\ UNCHANGED <<bot, load_task, customers, name_to_full, ledger, pending_messages, user_data, inflight,
                 gpt_cache, prompts, next_cleanup, accepted_at>>

\* main.clear_pending (order_bot.py, order_bot_backup.py), the job run every
\* CLEANUP_INTERVAL seconds: the pending orders older than the timeout are
\* dropped and pending_messages is emptied
ClearPending ==
  /\ bot \in {"order_bot", "order_bot_backup"}
  /\ now >= next_cleanup
  /\ user_data' = [u \in DOMAIN user_data |->
                     IF /\ user_data[u].pending_order # NoPending
                        /\ now - user_data[u].pending_order.timestamp > PENDING_ORDER_TIMEOUT
                       THEN [user_data[u] EXCEPT !.pending_order = NoPending]
                       ELSE user_data[u]]
  /\ pending_messages' = {}
  /\ next_cleanup' = next_cleanup + CLEANUP_INTERVAL
  /\ last' = [Idle EXCEPT !.op = "clear_pending"]
  /\ UNCHANGED <<bot, load_task, customers, name_to_full, ledger, now, inflight, gpt_cache, prompts, accepted_at>>

\* OrderBot._check_rate_limit (order_bot.py, order_bot_backup.py) called for
\* a message of user u
CheckRateLimit(u) ==
  /\ bot \in {"order_bot", "order_bot_backup"}
  /\ \E ok \in {_check_rate_limit(user_data, now, u)} :
       /\ user_data' = IF ok THEN [user_data EXCEPT ![u].last_message = now] ELSE user_data
       /\ accepted_at' = IF ok THEN [accepted_at EXCEPT ![u] = now] ELSE accepted_at
       /\ last' = [Idle EXCEPT !.op = "_check_rate_limit", !.user = u,
                               !.reply = IF ok THEN "accepted" ELSE "wait"]
  /\ UNCHANGED <<bot, load_task, customers, name_to_full, ledger, pending_messages, now, inflight, gpt_cache,
                 prompts, next_cleanup>>

\* the head of ImprovedOrderBot.handle_message for a message of user u: the
\* cleanup when the last one is more than CLEANUP_INTERVAL ago (next_cleanup
\* is last_cleanup + CLEANUP_INTERVAL), then _check_rate_limit
ImprovedCheckRateLimit(u) ==
  /\ bot = "improved_order_bot"
  /\ \E due \in {now > next_cleanup} :
     \E r \in {_check_rate_limit_improved(
                 IF due THEN _cleanup_old_data(user_data, now) ELSE user_data, now, u)} :
       /\ user_data' = r.user_data
       /\ pending_messages' = IF due THEN {} ELSE pending_messages
       /\ next_cleanup' = IF due THEN now + CLEANUP_INTERVAL ELSE next_cleanup
       /\ accepted_at' = IF r.accepted THEN [accepted_at EXCEPT ![u] = now] ELSE accepted_at
       /\ last' = [Idle EXCEPT !.op = "_check_rate_limit", !.user = u,
                               !.reply = IF r.accepted THEN "accepted" ELSE "wait",
                               !.outcome = IF due THEN "cleanup" ELSE "none"]
  /\ UNCHANGED <<bot, load_task, customers, name_to_full, ledger, now, inflight, gpt_cache, prompts>>

\* the customer name an add command carries
CommandName(text) == Strip(SubSeq(text, 5, Len(text)))

\* the Application is built without concurrent_updates, so an update is
\* dispatched with every handler of an earlier update finished
CanDispatch_concurrent == TRUE

CanDispatch == inflight.customer = NONE

\* handle_new_customer_command (bot.py, improved_order_bot.py) up to its
\* await of update_gcp_secret: the record is appended and indexed; a command
\* without a name or for a known record is answered at once
BeginAdd(text) ==
  /\ bot \in {"bot", "improved_order_bot"}
  /\ CanDispatch
  /\ \E r \in {IF bot = "bot"
                 THEN handle_new_customer_command(customers, name_to_full, text, TRUE)
                 ELSE handle_new_customer_command_improved(customers, name_to_full, text, TRUE)} :
       /\ Len(r.customers) <= MaxCustomers
       /\ customers' = r.customers
       /\ name_to_full' = r.name_to_full
       /\ IF r.reply = "added"
            THEN /\ inflight' = [text |-> text, customer |-> CommandName(text),
                                 customers |-> customers, name_to_full |-> name_to_full]
                 /\ last' = [Idle EXCEPT !.op = "begin_add", !.arg = text]
            ELSE /\ inflight' = inflight
                 /\ last' = [Idle EXCEPT !.op = "new_customer", !.arg = text, !.reply = r.reply]
  /\ UNCHANGED <<bot, load_task, ledger, orderVars>>

\* the rest of handle_new_customer_command once update_gcp_secret has
\* returned success: the reply, after the removal of the record on failure
FinishAdd(success) ==
  /\ inflight.customer # NONE
  /\ \E r \in {IF bot = "bot"
                 THEN handle_new_customer_command(inflight.customers, inflight.name_to_full,
                                                  inflight.text, success)
                 ELSE handle_new_customer_command_improved(inflight.customers, inflight.name_to_full,
                                                           inflight.text, success)} :
       /\ customers' = r.customers
       /\ name_to_full' = r.name_to_full
       /\ last' = [Idle EXCEPT !.op = "new_customer", !.arg = inflight.text, !.reply = r.reply]
  /\ inflight' = NoAdd
  /\ UNCHANGED <<bot, load_task, ledger, orderVars>>

\* the payment branch of handle_message (bot.py) as a handler of its own
HandlePayment(text) ==
  /\ bot = "bot"
  /\ Len(ledger) < MaxLedger
  /\ Payment(text)
  /\ UNCHANGED <<bot, load_task, inflight, orderVars>>

Next ==
  \/ \E name \in NamePool : FindCustomer(name)
  \/ \E text \in TextPool : HandleMessage(text)
  \/ \E text \in CommandPool : ImprovedNewCustomer(text)
  \/ \E text \in OrderTextPool : FindCustomerInText(text)
  \/ \E text \in CommandPool : AddCustomer(SubSeq(text, 5, Len(text)))
  \/ \E u \in Users, message_id \in MessageIds, name \in OrderNamePool \cup DictValues(name_to_full), att \in AttemptSeqs :
       TryRecord(u, message_id, name, 5, <<"x">>, att)

Spec == Init /\ [][Next]_vars

\* the conversation of the order bots with their users: the state after
\* construction at a time of at least one cooldown, and the updates the
\* handlers of order_bot.py and order_bot_backup.py receive
InitOrder ==
  /\ bot \in {"order_bot", "order_bot_backup"}
  /\ customers \in SeqsUpTo(OrderRecordPool, MaxCustomers)
  /\ bot = "order_bot_backup" => customers # <<>>
  /\ name_to_full = BuildIndex(bot, customers)
  /\ ledger = <<>>
  /\ pending_messages = {}
  /\ user_data = [u \in OrderUsers |-> NewUser]
  /\ now = MESSAGE_COOLDOWN
  /\ inflight = NoAdd
  /\ gpt_cache = GPTCache(GPT_CACHE_TTL, MAX_CACHE_SIZE)
  /\ prompts = {}
  /\ next_cleanup = MESSAGE_COOLDOWN + CLEANUP_INTERVAL
  /\ accepted_at = [u \in DOMAIN user_data |-> Never]
  /\ load_task = "done"
  /\ last = Idle

NextOrder ==
  \/ \E u \in OrderUsers, message_id \in MessageIds, text \in OrderMsgPool, is_edited \in BOOLEAN :
       OrderMessage(u, message_id, text, is_edited)
  \/ \E u \in OrderUsers, sub_action \in {"yes", "no"}, message_id \in MessageIds :
       Callback(u, sub_action, message_id)
  \/ Tick(2 * MESSAGE_COOLDOWN)

SpecOrder == InitOrder /\ [][NextOrder]_vars

\* one user's conversation with an order bot over the time in which a pending
\* order ages past the timeout and the job queue runs clear_pending
InitSweep ==
  /\ bot \in {"order_bot", "order_bot_backup"}
  /\ customers \in SeqsUpTo(OrderRecordPool, MaxCustomers)
  /\ bot = "order_bot_backup" => customers # <<>>
  /\ name_to_full = BuildIndex(bot, customers)
  /\ ledger = <<>>
  /\ pending_messages = {}
  /\ user_data = [u \in Users |-> NewUser]
  /\ now = MESSAGE_COOLDOWN
  /\ inflight = NoAdd
  /\ gpt_cache = GPTCache(GPT_CACHE_TTL, MAX_CACHE_SIZE)
  /\ prompts = {}
  /\ next_cleanup = MESSAGE_COOLDOWN + CLEANUP_INTERVAL
  /\ accepted_at = [u \in DOMAIN user_data |-> Never]
  /\ load_task = "done"
  /\ last = Idle

NextSweep ==
  \/ \E u \in Users, message_id \in MessageIds, text \in OrderMsgPool, is_edited \in BOOLEAN :
       OrderMessage(u, message_id, text, is_edited)
  \/ \E u \in Users, sub_action \in {"yes", "no"}, message_id \in MessageIds :
       Callback(u, sub_action, message_id)
  \/ \E t \in TimePool : Tick(t)
  \/ ClearPending

SpecSweep == InitSweep /\ [][NextSweep]_vars

\* one user's conversation with an order bot up to the first message that
\* is recorded, with all the rows the retried attempts append
NextRetry ==
  \/ \E u \in Users, message_id \in MessageIds, text \in OrderMsgPool, is_edited \in BOOLEAN :
       FirstOrderMessage(u, message_id, text, is_edited)
  \/ \E u \in Users, sub_action \in {"yes", "no"}, message_id \in MessageIds :
       Callback(u, sub_action, message_id)
  \/ Tick(2 * MESSAGE_COOLDOWN)

SpecRetry == InitSweep /\ [][NextRetry]_vars

\* the rate limit of the order bots: two users' messages as time passes
InitRate ==
  /\ bot \in {"order_bot", "order_bot_backup", "improved_order_bot"}
  /\ customers \in {<<record>> : record \in OrderRecordPool}
  /\ name_to_full = BuildIndex(bot, customers)
  /\ ledger = <<>>
  /\ pending_messages = {}
  /\ user_data = [u \in OrderUsers |-> NewUser]
  /\ now = MESSAGE_COOLDOWN
  /\ inflight = NoAdd
  /\ gpt_cache = GPTCache(GPT_CACHE_TTL, MAX_CACHE_SIZE)
  /\ prompts = {}
  /\ next_cleanup = MESSAGE_COOLDOWN + CLEANUP_INTERVAL
  /\ accepted_at = [u \in OrderUsers |-> Never]
  /\ load_task = "done"
  /\ last = Idle

NextRate ==
  \/ \E u \in OrderUsers : CheckRateLimit(u)
  \/ \E u \in OrderUsers : ImprovedCheckRateLimit(u)
  \/ \E t \in RateTimePool : Tick(t)

SpecRate == InitRate /\ [][NextRate]_vars

\* record_to_sheets of every bot, called with cells that hold line breaks
InitRow ==
  /\ bot \in Bots
  /\ customers \in {<<record>> : record \in OrderRecordPool}
  /\ name_to_full = BuildIndex(bot, customers)
  /\ ledger = <<>>
  /\ pending_messages = {}
  /\ user_data = [u \in Users |-> NewUser]
  /\ now = 0
  /\ inflight = NoAdd
  /\ gpt_cache = GPTCache(GPT_CACHE_TTL, MAX_CACHE_SIZE)
  /\ prompts = {}
  /\ next_cleanup = CLEANUP_INTERVAL
  /\ accepted_at = [u \in Users |-> Never]
  /\ load_task = "done"
  /\ last = Idle

NextRow ==
  \E customer \in CellPool, amount \in AmountCellPool, fourth \in CellPool \cup SourcePool,
     sender \in CellPool :
    RecordToSheets(<<"t">>, customer, amount, fourth, sender)

SpecRow == InitRow /\ [][NextRow]_vars

\* the rule-based parser of payment-bot/app.py applied to payments
InitPay ==
  /\ bot = "payment_app"
  /\ customers \in {<<record>> : record \in OrderRecordPool}
  /\ name_to_full = BuildIndex(bot, customers)
  /\ ledger = <<>>
  /\ pending_messages = {}
  /\ user_data = [u \in Users |-> NewUser]
  /\ now = 0
  /\ inflight = NoAdd
  /\ gpt_cache = GPTCache(GPT_CACHE_TTL, MAX_CACHE_SIZE)
  /\ prompts = {}
  /\ next_cleanup = CLEANUP_INTERVAL
  /\ accepted_at = [u \in Users |-> Never]
  /\ load_task = "done"
  /\ last = Idle

NextPay == \E name \in PayNamePool, amount_str \in PayAmountPool : ParsePayment(name, amount_str)

SpecPay == InitPay /\ [][NextPay]_vars

\* a GPTCache of the configured TTL and of a small max_size (the environment
\* variable MAX_CACHE_SIZE), used through get, set and clear as time passes
InitCache ==
  /\ bot = "improved_order_bot"
  /\ customers \in {<<record>> : record \in OrderRecordPool}
  /\ name_to_full = BuildIndex(bot, customers)
  /\ ledger = <<>>
  /\ pending_messages = {}
  /\ user_data = [u \in Users |-> NewUser]
  /\ now = MESSAGE_COOLDOWN
  /\ inflight = NoAdd
  /\ gpt_cache \in {GPTCache(GPT_CACHE_TTL, max_size) : max_size \in 1 .. MaxCacheSize}
  /\ prompts = {}
  /\ next_cleanup = MESSAGE_COOLDOWN + CLEANUP_INTERVAL
  /\ accepted_at = [u \in Users |-> Never]
  /\ load_task = "done"
  /\ last = Idle

NextCache ==
  \/ \E text \in CacheTextPool, customer_list \in CacheListPool : CacheGet(text, customer_list)
  \/ \E text \in CacheTextPool, customer_list \in CacheListPool, value \in CacheValuePool :
       CacheSet(text, customer_list, value)
  \/ CacheClear
  \/ \E t \in CacheTimePool : Tick(t)

SpecCache == InitCache /\ [][NextCache]_vars

\* the order bots' LLM parsing: calls of parse_order_with_gpt, and add
\* commands of improved_order_bot.py that change the index between them
NextParse ==
  \/ \E text \in ParseTextPool, outs \in ParseGptSeqs : ParseOrderWithGpt(text, outs)
  \/ \E text \in CommandPool : ImprovedNewCustomer(text)

SpecParse == Init /\ [][NextParse]_vars

\* the payment bots with the add command in its two steps, around the await
\* of update_gcp_secret
NextAsync ==
  \/ CanDispatch /\ \E name \in NamePool : FindCustomer(name)
  \/ CanDispatch /\ \E text \in TextPool : HandlePayment(text)
  \/ \E text \in CommandPool : BeginAdd(text)
  \/ \E success \in BOOLEAN : FinishAdd(success)

SpecAsync == Init /\ [][NextAsync]_vars

\* ------------------------------------------------------------- properties
\* the set of the elements of a list
Range(lst) == {lst[i] : i \in DOMAIN lst}

\* the last call is a call of find_customer of bot.py
FoundByBot == bot = "bot" /\ last.op = "find_customer"

\* C1: whatever find_customer (bot.py) returns is a member of the customer
\* list, and an LLM answer that, once trimmed, is not in the list resolves
\* nothing
C1_ValidateThenTrust ==
  FoundByBot =>
    /\ last.result # NONE => last.result \in Range(customers)
    /\ (CalledLlm(last) /\ last.resp # ERROR /\ Strip(last.resp) \notin Range(customers))
         => last.result = NONE

\* C2: every row appended to the ledger carries a customer that is in the
\* customer list at the time of the append, and a message whose customer is
\* unresolved appends no row (bot.py handle_message, try_record of
\* order_bot.py and order_bot_backup.py)
C2_LedgerRowsAreRecords ==
  [][\A i \in (Len(ledger) + 1)..Len(ledger') :
       /\ ledger'[i].customer \in Range(customers)
       /\ last'.result = ledger'[i].customer]_vars

\* C3: a call of find_customer whose candidate equals an index key exactly
\* never asks the LLM (bot.py and payment-bot/app.py)
C3_ExactKeyNeverAsksLlm ==
  (last.op = "find_customer" /\ last.arg \in DictKeys(name_to_full)) => ~CalledLlm(last)

\* a call of find_customer with a candidate that is an index key
C3_Witness ==
  /\ last.op = "find_customer"
  /\ last.arg \in DictKeys(name_to_full)
  /\ last.result = DictGet(name_to_full, last.arg)

\* the fixed order of the strategies of find_customer (bot.py)
StrategyOrder == <<"key", "record", "lower", "substring", "llm">>

\* what one strategy alone yields for the last call, NONE for no match
StrategyResult(s) ==
  LET name == last.arg
      ci == {i \in DOMAIN name_to_full : Lower(name_to_full[i][1]) = Lower(name)}
      sub == {i \in DOMAIN name_to_full :
                \/ Contains(Lower(name_to_full[i][1]), Lower(name))
                \/ Contains(Lower(name), Lower(name_to_full[i][1]))}
  IN CASE s = "key" ->
            IF \E e \in Range(name_to_full) : e[1] = name
              THEN (CHOOSE e \in Range(name_to_full) : e[1] = name)[2] ELSE NONE
       [] s = "record" -> IF name \in Range(customers) THEN name ELSE NONE
       [] s = "lower" ->
            IF ci # {} THEN name_to_full[CHOOSE i \in ci : \A j \in ci : i <= j][2] ELSE NONE
       [] s = "substring" ->
            IF Cardinality(sub) = 1 THEN name_to_full[CHOOSE i \in sub : TRUE][2] ELSE NONE
       [] s = "llm" ->
            IF last.resp \notin {NONE, ERROR, NULL} /\ Strip(last.resp) \in Range(customers)
              THEN Strip(last.resp) ELSE NONE

\* C4: find_customer (bot.py) runs its strategies in the order exact key,
\* exact record, case-insensitive key, substring, LLM, stops at the first
\* that matches and returns that strategy's match
C4_StrictOrder ==
  FoundByBot =>
    LET n == Len(last.ran)
    IN /\ n <= Len(StrategyOrder)
       /\ last.ran = SubSeq(StrategyOrder, 1, n)
       /\ \A i \in 1..(n - 1) : StrategyResult(last.ran[i]) = NONE
       /\ n > 0 => last.result = StrategyResult(last.ran[n])
       /\ n = 0 => last.result = NONE /\ \A i \in 1..4 : StrategyResult(StrategyOrder[i]) = NONE
       /\ (n > 0 /\ last.result = NONE) => n = Len(StrategyOrder)

\* a call that the third strategy decides after the first two found nothing
C4_Witness ==
  /\ FoundByBot
  /\ last.ran = <<"key", "record", "lower">>
  /\ last.result # NONE

\* the index entries whose key, lowercased, contains the lowercased candidate
\* of the last call or is contained in it
SubstringHits ==
  {i \in DOMAIN name_to_full :
     \/ Contains(Lower(name_to_full[i][1]), Lower(last.arg))
     \/ Contains(Lower(last.arg), Lower(name_to_full[i][1]))}

\* C5: in the substring step of find_customer (bot.py), keys compared in lower
\* case: exactly one key satisfying the containment is returned; two or more
\* yield nothing from the step and the LLM is asked
C5_SubstringStep ==
  (FoundByBot /\ Len(last.ran) >= 4) =>
    /\ Cardinality(SubstringHits) = 1 =>
         /\ last.ran = <<"key", "record", "lower", "substring">>
         /\ \A i \in SubstringHits : last.result = name_to_full[i][2]
    /\ Cardinality(SubstringHits) >= 2 =>
         /\ CalledLlm(last)
         /\ last.result \in {NONE, Strip(last.resp)}

\* a call with two or more keys satisfying the containment
C5_Witness ==
  /\ FoundByBot
  /\ Len(last.ran) >= 4
  /\ Cardinality(SubstringHits) >= 2

\* the keys of the index that occur in the text of the last call
KeysInLastText == {e[1] : e \in Range(KeysInText(name_to_full, last.arg))}

\* C6: when more than one index key occurs in the message text,
\* _find_customer_in_text (order_bot.py, order-bot/orderapp.py) does not
\* return the record of one of those keys from its substring step
C6_DefersOnAmbiguity ==
  (last.op = "find_in_text" /\ Cardinality(KeysInLastText) > 1) =>
     ~(last.ran = <<"substring">> /\ last.result \in {DictGet(name_to_full, k) : k \in KeysInLastText})

\* C7: two calls of find_customer with the same candidate and an unchanged
\* list and index yield the same outcome
C7_Idempotent ==
  [][(/\ last.op = "find_customer"
      /\ last'.op = "find_customer"
      /\ last'.arg = last.arg
      /\ customers' = customers
      /\ name_to_full' = name_to_full) => last'.result = last.result]_vars

\* C8 as claimed: find_customer (bot.py) returns every record of the list
\* unchanged
C8_PassThroughAlways ==
  (FoundByBot /\ last.arg \in Range(customers)) => last.result = last.arg

\* C8 amended: find_customer (bot.py) returns a record of the list unchanged
\* unless the record is also an index key of a different record
C8_PassThrough ==
  (/\ FoundByBot
   /\ last.arg \in Range(customers)
   /\ DictGet(name_to_full, last.arg) \in {NONE, last.arg}) => last.result = last.arg

\* a record of the list that is no index key is passed through
C8_Witness ==
  /\ FoundByBot
  /\ last.arg \in Range(customers)
  /\ last.arg \notin DictKeys(name_to_full)
  /\ last.result = last.arg

\* C9: an add command for a record that is verbatim in the list is answered
\* "already exists" and changes neither the list nor the index (bot.py and
\* improved_order_bot.py)
C9_DuplicateRejected ==
  [][(last'.op = "new_customer" /\ CommandName(last'.arg) \in Range(customers)) =>
       /\ last'.reply = "exists"
       /\ customers' = customers
       /\ name_to_full' = name_to_full]_vars

\* an add command was answered "already exists"
C9_Witness ==
  /\ last.op = "new_customer"
  /\ last.reply = "exists"
  /\ CommandName(last.arg) \in Range(customers)

\* C10: when persisting fails, handle_new_customer_command (bot.py) leaves the
\* list and the whole index as they were before the command
C10_FailedAddDiscarded ==
  [][(bot = "bot" /\ last'.op = "new_customer" /\ last'.reply = "add_failed") =>
       /\ customers' = customers
       /\ name_to_full' = name_to_full]_vars

\* C11: after a successful add of a new record the index holds the same keys
\* and key-to-record mapping as an index rebuilt from the extended list
\* (add_customer of order-bot/orderapp.py, handle_new_customer_command of
\* bot.py)
C11_IncrementalEqualsRebuild ==
  [][(bot \in {"bot", "orderapp"} /\ last'.op \in {"new_customer", "add_customer"}
      /\ last'.reply = "added")
       => Range(name_to_full') = Range(BuildIndex(bot, customers'))]_vars

C13_EveryRecordIndexed ==
  (bot \in {"bot", "order_bot"} /\ last.op = "none") =>
     \A i \in DOMAIN customers :
        Strip(customers[i]) # <<>> => Strip(customers[i]) \in DictValues(name_to_full)

\* the calls of the completion API the last parse_order_with_gpt made that
\* were followed by another call
Reattempted == SubSeq(last.calls, 1, Len(last.calls) - 1)

\* does the first call of the last parse_order_with_gpt end in a failure the
\* policy does not retry: an authentication failure, a malformed response or
\* a customer that is no record of the index
EndsAtOnce ==
  /\ last.calls # <<>>
  /\ \/ last.calls[1].kind \in {"auth", "error"}
     \/ /\ last.calls[1].kind = "json"
        /\ last.calls[1].customer \notin DictValues(name_to_full)
        /\ Strip(last.calls[1].customer) \notin DictValues(name_to_full)

\* C14: parse_order_with_gpt of order_bot.py and improved_order_bot.py calls
\* the LLM again only after a rate-limit failure and at most MAX_RETRIES times;
\* an authentication failure, a malformed response or an out-of-domain customer
\* ends it with no result after one call
C14_RetryOnlyOnRateLimit ==
  (bot \in {"order_bot", "improved_order_bot"} /\ last.op = "parse_order_with_gpt") =>
     /\ Len(last.calls) <= MAX_RETRIES
     /\ \A i \in DOMAIN Reattempted : Reattempted[i].kind = "rate_limit"
     /\ EndsAtOnce => (Len(last.calls) = 1 /\ last.outcome = "none")

\* a parse that succeeded at the last attempt, after rate-limit failures
C14_Witness ==
  /\ bot \in {"order_bot", "improved_order_bot"}
  /\ last.op = "parse_order_with_gpt"
  /\ Len(last.calls) = MAX_RETRIES
  /\ last.outcome = "parsed"

\* a parse that an authentication failure ended after one call
C14_WitnessAuth ==
  /\ bot \in {"order_bot", "improved_order_bot"}
  /\ last.op = "parse_order_with_gpt"
  /\ EndsAtOnce
  /\ last.calls[1].kind = "auth"

\* C15: when every attempt of the LLM call fails with a rate-limit error,
\* parse_order_with_gpt returns nothing and raises no exception to its caller
C15_RateLimitedReturnsNone ==
  (/\ bot \in {"order_bot", "improved_order_bot"}
   /\ last.op = "parse_order_with_gpt"
   /\ last.calls # <<>>
   /\ \A i \in DOMAIN last.calls : last.calls[i].kind = "rate_limit") =>
     last.outcome = "none"

\* the number of LLM calls the last find_customer made
LlmCallCount == Cardinality({i \in DOMAIN last.ran : last.ran[i] = "llm"})

\* C16: in bot.py a failure of the LLM call inside map_customer_with_gpt is
\* followed by another attempt of the call before the resolution is given up
C16_FailedCallRetried ==
  (bot = "bot" /\ last.op = "find_customer" /\ last.resp = ERROR) => LlmCallCount >= 2

\* C17: no failure of the LLM call or of the ledger append leaves
\* handle_message of order_bot.py as an exception
C17_FailuresCaught ==
  (bot = "order_bot" /\ last.op = "handle_message") => last.raised \notin {"llm", "sheets"}

\* C18: a text from which neither parse_payment nor the LLM extractor gets a
\* name and an amount is answered with a reply
C18_UnparsedAnswered ==
  (/\ bot = "bot"
   /\ last.op = "handle_message"
   /\ ~StartsWith(last.arg, NewPrefix)
   /\ ~parse_payment(last.arg).ok
   /\ last.ran = <<>>) =>
     last.reply # "none"

\* an order text of user u that handle_message of order_bot.py passes to
\* _process_order and in which no known customer is found
UnknownCustomerOrder(u, text) ==
  /\ _check_rate_limit(user_data, now, u)
  /\ ~user_data[u].adding_customer
  /\ _is_potential_order(text)
  /\ _find_customer_in_text(name_to_full, text).result = NONE

\* C19: in order_bot.py an order whose customer is not resolved to a known
\* record can end in the prompt to add a new customer: for some answer of the
\* LLM, handle_message reaches the unresolved branch of try_record
C19_UnresolvedPrompts ==
  bot = "order_bot" =>
    \A u \in OrderUsers, text \in OrderMsgPool :
       UnknownCustomerOrder(u, text) =>
         \E r \in handle_message(u, 1, text, FALSE) : r.reply = "prompt"

\* the name _handle_add_customer derives from a reply
DerivedName(text) ==
  IF CodeMatches(Strip(text)) THEN Strip(CodeGroup2(Strip(text))) ELSE Strip(text)

\* the ledger row of the order user u has pending, under the record full
PendingRow(u, full) ==
  [customer |-> _sanitize_sheet_data(full),
   amount |-> user_data[u].pending_order.amount,
   product |-> _sanitize_sheet_data(user_data[u].pending_order.product)]

\* C20: a reply in adding mode whose derived name equals the pending name, and
\* whose handling raises nothing, appends the record to the list and the
\* index, writes the pending order to the ledger under it, discards the
\* pending order and ends adding mode
C20_ConfirmationRegisters ==
  [][(/\ last'.op = "handle_message"
      /\ _check_rate_limit(user_data, now, last'.user)
      /\ user_data[last'.user].adding_customer
      /\ user_data[last'.user].pending_order # NoPending
      /\ DerivedName(last'.arg) = user_data[last'.user].pending_order.name
      /\ last'.reply # "exception")
       => (/\ InList(customers', Strip(last'.arg))
           /\ DictHas(name_to_full', DerivedName(last'.arg))
           /\ DictGet(name_to_full', DerivedName(last'.arg)) = Strip(last'.arg)
           /\ ledger' = Append(ledger, PendingRow(last'.user, Strip(last'.arg)))
           /\ ~user_data'[last'.user].adding_customer
           /\ user_data'[last'.user].pending_order = NoPending)]_vars

\* user u has an order pending that was created more than the timeout ago
Expired(u) ==
  /\ user_data[u].pending_order # NoPending
  /\ now - user_data[u].pending_order.timestamp > PENDING_ORDER_TIMEOUT

\* C21: a message of a user whose pending order is older than
\* PENDING_ORDER_TIMEOUT adds no customer and writes no ledger row, whether
\* or not clear_pending has run since the order expired
C21_ExpiredNotConfirmed ==
  [][(/\ last'.op = "handle_message"
      /\ user_data[last'.user].adding_customer
      /\ Expired(last'.user))
       => (customers' = customers /\ name_to_full' = name_to_full /\ ledger' = ledger)]_vars

\* the users whose name is in self.admins (payment-bot/app.py, orderapp.py):
\* user 1 is one of them, user 2 is not
admins == {1}

\* C22: handling a message of a user that is not in admins changes neither
\* the customer list nor the index
C22_OnlyAuthorizedModify ==
  [][(last'.op = "handle_message" /\ last'.user \notin admins)
       => (customers' = customers /\ name_to_full' = name_to_full)]_vars

\* would the rate limit accept a message of user v at time t
WouldAccept(ud, t, v) == ~(t - ud[v].last_message < MESSAGE_COOLDOWN)

\* C23: the rate limit accepts a message of a user exactly when no message
\* of that user was accepted before or the last accepted one is at least
\* MESSAGE_COOLDOWN old; a rejected message leaves the user's stored time as
\* it was; and no other user's stored time or acceptance changes
C23_RateLimitPerSender ==
  [][last'.op = "_check_rate_limit"
       => /\ (last'.reply = "accepted")
               <=> (\/ accepted_at[last'.user] = Never
                    \/ now - accepted_at[last'.user] >= MESSAGE_COOLDOWN)
          /\ last'.reply = "wait"
               => user_data'[last'.user].last_message = user_data[last'.user].last_message
          /\ \A v \in DOMAIN user_data \ {last'.user} :
               /\ accepted_at'[v] = accepted_at[v]
               /\ WouldAccept(user_data', now, v) <=> WouldAccept(user_data, now, v)]_vars

\* a message is accepted one cooldown after the start, which is exactly one
\* cooldown after the user's first message if there was one, while the other
\* user's last accepted message is younger than the cooldown
C23_Witness ==
  /\ last.op = "_check_rate_limit"
  /\ last.reply = "accepted"
  /\ now = MESSAGE_COOLDOWN + MESSAGE_COOLDOWN
  /\ \E v \in DOMAIN user_data \ {last.user} :
       /\ accepted_at[v] # Never
       /\ now - accepted_at[v] < MESSAGE_COOLDOWN

\* the improved bot's cleanup ran at the head of a message and dropped the
\* other user's stored time
C23_WitnessCleanup ==
  /\ last.op = "_check_rate_limit"
  /\ last.outcome = "cleanup"
  /\ \E v \in DOMAIN user_data \ {last.user} :
       accepted_at[v] # Never /\ user_data[v].last_message = 0

\* the key of the get or set that was just made
LastKey == _make_key(last.arg, last.ran)

\* C24: a get returns a value only from an entry stored less than the TTL
\* ago and leaves the time the entry was stored at as it was; a get that
\* finds an entry at least as old as the TTL returns nothing and removes it
\* from both tables; and a set stores the entry under the current time
C24_ExpiredNeverReturned ==
  [][/\ last'.op = "cache_get"
          => \E key \in {_make_key(last'.arg, last'.ran)} :
               /\ last'.parsed # NoOrder
                    => /\ DictHas(gpt_cache._cache, key)
                       /\ now - DictGet(gpt_cache._cache, key).timestamp < gpt_cache.ttl
                       /\ last'.parsed = DictGet(gpt_cache._cache, key).value
                       /\ DictGet(gpt_cache'._cache, key) = DictGet(gpt_cache._cache, key)
               /\ (/\ DictHas(gpt_cache._cache, key)
                   /\ now - DictGet(gpt_cache._cache, key).timestamp >= gpt_cache.ttl)
                    => /\ last'.parsed = NoOrder
                       /\ ~DictHas(gpt_cache'._cache, key)
                       /\ ~DictHas(gpt_cache'._access_times, key)
     /\ last'.op = "cache_set"
          => DictGet(gpt_cache'._cache, _make_key(last'.arg, last'.ran))
               = [value |-> last'.parsed, timestamp |-> now]]_vars

\* a get has just found an entry exactly as old as the TTL, returned nothing
\* and removed it, while a younger entry stays
C24_Witness ==
  /\ last.op = "cache_get"
  /\ last.outcome = "cache_expired"
  /\ last.parsed = NoOrder
  /\ now = MESSAGE_COOLDOWN + GPT_CACHE_TTL
  /\ ~DictHas(gpt_cache._cache, LastKey)
  /\ \E i \in DOMAIN gpt_cache._cache : gpt_cache._cache[i][2].timestamp = MESSAGE_COOLDOWN + 1

\* the keys of a table
KeySet(d) == {d[i][1] : i \in DOMAIN d}

\* C25: the cache never holds more than max_size entries, and _cache and
\* _access_times hold the same keys, each once
C25_CapacityAndSameKeys ==
  /\ Len(gpt_cache._cache) <= gpt_cache.max_size
  /\ KeySet(gpt_cache._cache) = KeySet(gpt_cache._access_times)
  /\ Cardinality(KeySet(gpt_cache._cache)) = Len(gpt_cache._cache)
  /\ Len(gpt_cache._access_times) = Len(gpt_cache._cache)

\* a set has just stored a key in a cache that is full and holds another
\* entry, whose access time a get refreshed after it was stored
C25_Witness ==
  /\ last.op = "cache_set"
  /\ Len(gpt_cache._cache) = gpt_cache.max_size
  /\ DictHas(gpt_cache._cache, LastKey)
  /\ DictGet(gpt_cache._access_times, LastKey) = now
  /\ \E i \in DOMAIN gpt_cache._cache :
       /\ gpt_cache._cache[i][1] # LastKey
       /\ gpt_cache._cache[i][2].timestamp < DictGet(gpt_cache._access_times, gpt_cache._cache[i][1])

\* the keys a step removes from the cache
Removed == KeySet(gpt_cache._cache) \ KeySet(gpt_cache'._cache)

\* C26: a set removes a key only when it stores a key that is not in the
\* cache and the cache holds max_size entries; a key it removes has the
\* least time of last hit or store; and a set of a key that is in the cache
\* removes no key
C26_EvictsLruOnlyWhenNeeded ==
  [][last'.op = "cache_set"
       => \E key \in {_make_key(last'.arg, last'.ran)} :
            /\ Removed # {}
                 => /\ ~DictHas(gpt_cache._cache, key)
                    /\ Len(gpt_cache._cache) >= gpt_cache.max_size
            /\ \A r \in Removed : \A k \in KeySet(gpt_cache._access_times) :
                 DictGet(gpt_cache._access_times, r) <= DictGet(gpt_cache._access_times, k)
            /\ DictHas(gpt_cache._cache, key) => Removed = {}]_vars

\* C27: an order parse_order_with_gpt returns comes from a JSON object, has
\* an amount above 0 and a product that is not empty, and its customer is a
\* record of the customer list
C27_ParsedOrderValidated ==
  [][(last'.op = "parse_order_with_gpt" /\ last'.outcome = "parsed")
       => /\ last'.parsed.kind = "json"
          /\ last'.parsed.amount > 0
          /\ last'.parsed.product # <<>>
          /\ InList(customers, last'.parsed.customer)]_vars

\* C27 for order_bot.py alone
C27_OrderBotValidated ==
  [][(last'.op = "parse_order_with_gpt" /\ last'.outcome = "parsed" /\ bot = "order_bot")
       => /\ last'.parsed.kind = "json"
          /\ last'.parsed.amount > 0
          /\ last'.parsed.product # <<>>
          /\ InList(customers, last'.parsed.customer)]_vars

\* the texts of the pool that carry the amount 0: "ab 0"
ZeroAmountPool == { <<"a", "b", " ", "0">> }

\* C28: handling a message whose amount is 0 writes no ledger row
C28_NonPositiveNotRecorded ==
  [][(last'.op = "handle_message" /\ last'.arg \in ZeroAmountPool) => ledger' = ledger]_vars

\* C29: parse_payment of app.py, given a name, a space and a number above 0,
\* returns that name and the value of that number
C29_EveryPositiveAmountParsed ==
  (last.op = "parse_payment" /\ Hundredths(last.ran[2]) > 0)
    => /\ last.result.ok
       /\ last.result.name = last.ran[1]
       /\ last.result.amount = Hundredths(last.ran[2])

\* C30: no cell of a row of the ledger holds a newline or a carriage return
C30_NoLineBreakInRow ==
  \A i \in DOMAIN ledger : \A f \in DOMAIN ledger[i] : \A k \in DOMAIN ledger[i][f] :
    ledger[i][f][k] \notin {"\n", "\r"}

\* the message handlers of bot.py and payment-bot/app.py
NextApp ==
  \/ \E text \in TextPool : HandleMessage(text)
  \/ \E is_admin \in BOOLEAN, to_not_found \in BOOLEAN, text \in AppTextPool :
       AppHandleMessage(is_admin, to_not_found, text)

SpecApp == Init /\ [][NextApp]_vars

\* one user who sends order messages with two message ids and presses the
\* buttons of their prompts
NextTwo ==
  \/ \E u \in Users, message_id \in TwoMessageIds, text \in OrderMsgPool, is_edited \in BOOLEAN :
       OrderMessage(u, message_id, text, is_edited)
  \/ \E u \in Users, sub_action \in {"yes", "no"}, message_id \in TwoMessageIds :
       Callback(u, sub_action, message_id)
  \/ Tick(2 * MESSAGE_COOLDOWN)

SpecTwo == InitSweep /\ [][NextTwo]_vars

\* improved_order_bot.py from its construction, while the task that loads the
\* customers is pending, and bot.py after its synchronous load
InitStart ==
  /\ bot \in {"bot", "improved_order_bot"}
  /\ load_task = IF bot = "improved_order_bot" THEN "pending" ELSE "done"
  /\ customers \in IF bot = "improved_order_bot" THEN {<<>>} ELSE SeqsUpTo(RecordPool, 1)
  /\ name_to_full = BuildIndex(bot, customers)
  /\ ledger = <<>>
  /\ pending_messages = {}
  /\ user_data = [u \in Users |-> NewUser]
  /\ now = 0
  /\ inflight = NoAdd
  /\ gpt_cache = GPTCache(GPT_CACHE_TTL, MAX_CACHE_SIZE)
  /\ prompts = {}
  /\ next_cleanup = CLEANUP_INTERVAL
  /\ accepted_at = [u \in Users |-> Never]
  /\ last = Idle

\* the add commands and payments of bot.py, the add commands of
\* improved_order_bot.py and the completion of its load task
NextStart ==
  \/ \E data \in LoadPool : LoadCustomers(data)
  \/ \E text \in CommandPool : ImprovedNewCustomer(text)
  \/ \E text \in TextPool : HandleMessage(text)

SpecStart == InitStart /\ [][NextStart]_vars

\* improved_order_bot.py from its construction: add commands, the completion
\* of the load task, and the calls of parse_order_with_gpt its handle_message
\* makes, which it makes only when the list is not empty
NextReload ==
  \/ \E data \in LoadPool : LoadCustomers(data)
  \/ \E text \in ReloadCommandPool : ImprovedNewCustomer(text)
  \/ \E text \in ReloadTextPool, outs \in ReloadGptSeqs :
       customers # <<>> /\ ParseOrderWithGpt(text, outs)

\* improved_order_bot.py after its construction, the load task pending
InitReload ==
  /\ bot = "improved_order_bot"
  /\ InitStart

SpecReload == InitReload /\ [][NextReload]_vars

\* C31: handling one message appends at most one row to the ledger
C31_AtMostOneRowPerMessage ==
  [][last'.op = "handle_message" => Len(ledger') <= Len(ledger) + 1]_vars
C32_WitnessFailed ==
  /\ bot = "payment_app"
  /\ last.op = "handle_message"
  /\ last.reply = "record_failed"
  /\ last.result # NONE
  /\ ledger = <<>>

\* C33: the add command replies "added" only when it appended the record to
\* the customer list
C33_AddedOnlyWhenAppended ==
  [][(bot' = "payment_app" /\ last'.op = "new_customer" /\ last'.reply = "added") =>
       /\ Len(customers') = Len(customers) + 1
       /\ customers'[Len(customers')] \notin {customers[i] : i \in DOMAIN customers}]_vars

\* C34: in order_bot_backup.py a user is in adding mode only while a pending
\* order is stored for that user
C34_AddingImpliesPending ==
  bot = "order_bot_backup" =>
    \A u \in DOMAIN user_data :
      user_data[u].adding_customer => user_data[u].pending_order # NoPending

\* C35: a message handled in adding mode without an exception ends adding
\* mode and removes the user's pending order, whichever branch of
\* _handle_add_customer answers it
C35_AddingModeEnds ==
  [][(/\ last'.op = "handle_message"
      /\ _check_rate_limit(user_data, now, last'.user)
      /\ user_data[last'.user].adding_customer
      /\ last'.reply # "exception")
       => (/\ ~user_data'[last'.user].adding_customer
           /\ user_data'[last'.user].pending_order = NoPending)]_vars

\* C36: a button of the prompt of one message leaves the pending order of
\* another message as it is
C36_CallbackKeyedByMessage ==
  [][(/\ last'.op = "handle_callback"
      /\ user_data[last'.user].pending_order # NoPending
      /\ user_data[last'.user].pending_order.message_id # last'.message_id)
       => user_data'[last'.user].pending_order = user_data[last'.user].pending_order]_vars

\* the key under which the index of bot.py or improved_order_bot.py holds a
\* record
KeyFor(c) == IF bot = "bot" THEN NameKey(c) ELSE Lower(NameKey(c))

\* C37: the record an add command has just added successfully, in the list
\* and under its key in the index, is still in the list and its key still in
\* the index after the next event
C37_AddedCustomerStays ==
  [][(/\ last.op = "new_customer"
      /\ last.reply = "added"
      /\ InList(customers, CommandName(last.arg))
      /\ DictHas(name_to_full, KeyFor(CommandName(last.arg))))
       => (/\ InList(customers', CommandName(last.arg))
           /\ DictHas(name_to_full', KeyFor(CommandName(last.arg))))]_vars

\* C38: an order parse_order_with_gpt of improved_order_bot.py returns,
\* parsed now or taken from the cache, names a customer that is a value of
\* the index when it is returned
C38_ReturnedCustomerInIndex ==
  [][(/\ bot = "improved_order_bot"
      /\ last'.op = "parse_order_with_gpt"
      /\ last'.outcome = "parsed")
       => last'.parsed.customer \in DictValues(name_to_full')]_vars

\* an order taken from the cache names, once stripped, a value of the index
C38_HitInIndexOnceStripped ==
  [][(/\ bot = "improved_order_bot"
      /\ last'.op = "parse_order_with_gpt"
      /\ last'.outcome = "parsed"
      /\ last'.calls = <<>>)
       => Strip(last'.parsed.customer) \in DictValues(name_to_full')]_vars

====
